---- MODULE Spec2Model ----
(***************************************************************************)
(* Model of the pixel-fixer quantization engine:                           *)
(*   - nearest-colour resolver with its per-job LUT       (quantWorker.ts) *)
(*   - doNoneOrOrdered strip job and the worker's onmessage                *)
(*   - QuantPool (submit / pump / onmessage / onerror / destroy)           *)
(*   - quantizeToPaletteAdvancedFast (strip partition, join, reassembly)   *)
(*   - ordered dithering and error diffusion, in the worker and in         *)
(*     quantizeToPaletteAdvanced                          (image library)  *)
(*                                                                         *)
(* Typed arrays are sequences of numbers; the JavaScript index i is the    *)
(* TLA+ index i+1.  A read outside an array gives Undef (JS undefined),    *)
(* arithmetic on it gives NaN, and every comparison with NaN is false.     *)
(***************************************************************************)
EXTENDS Integers, Sequences, FiniteSets, TLC

\* ------------------------------------------------------------------ bounds
MaxW == 1          \* frame widths 1..MaxW
MaxH == 2          \* frame heights 1..MaxH
MaxPal == 2        \* palette lengths 0..MaxPal
MaxHw == 2         \* navigator.hardwareConcurrency in 0..MaxHw (0: not reported)
MaxSubmits == 3    \* submit calls made on one pool by the generic client
MaxRuns == 2       \* jobs one worker thread runs one after the other
MaxTapW == 4       \* frame widths 1..MaxTapW of a diffusion step on its own
MaxTapH == 3       \* frame heights 1..MaxTapH of a diffusion step on its own
MaxCells == 3      \* sprite lines of 2..MaxCells cells in the detection runs
MaxScale == 3      \* replication scales 1..MaxScale
MaxS == 4          \* maxS of detectAxis in 2..MaxS
MaxThick == 2      \* thickness 1..MaxThick of a replicated line
MaxSpriteW == 2    \* sprite widths 1..MaxSpriteW in the rebuild runs
MaxSpriteH == 2    \* sprite heights 1..MaxSpriteH
MaxBlock == 2      \* block sizes sX, sY in 1..MaxBlock
MaxChanges == 4    \* runs of the processedBase effect of a component

\* ------------------------------------------------------- program constants
PoolMax == 4       \* pool.ts: Math.min(4, ...)
PoolDefault == 2   \* pool.ts: navigator.hardwareConcurrency || 2
DefaultBits == 5   \* job.cacheBits ?? 5
BitsOklab == 5     \* cacheBits = distance==='oklab' ? 5 : 6
BitsRgb == 6

\* ------------------------------------------------------------ JS sentinels
Undef == -1        \* undefined (absent field, read outside an array)
NaN == -2          \* result of arithmetic on undefined
Infinity == -3     \* bestDist = Infinity

Min2(a, b) == IF a < b THEN a ELSE b
Max2(a, b) == IF a > b THEN a ELSE b
CeilDiv(a, b) == (a + b - 1) \div b

\* a ?? b
Nullish(a, b) == IF a = Undef THEN b ELSE a

\* buf[i] of a typed array
At(buf, i) == IF i + 1 \in DOMAIN buf THEN buf[i + 1] ELSE Undef

\* A JS number is kept in fixed point, as its numerator over Unit: the
\* perturbations of the ordered modes are multiples of 1/256 and the diffused
\* errors of a frame of n pixels are multiples of 1/16^(n-1), so the arithmetic
\* of the source is exact in this representation on frames of up to 4 pixels.
Unit == 16 * 16 * 16
Fix(v) == IF v = Undef THEN Undef ELSE v * Unit

\* storing v into a Uint8Array / Uint8ClampedArray cell: undefined -> 0
ToByte(v) == IF v = Undef \/ v = NaN THEN 0 ELSE v

\* a + b of two numbers, one of which may be undefined or NaN
Plus(a, b) == IF a \in { Undef, NaN } \/ b \in { Undef, NaN } THEN NaN ELSE a + b

\* ------------------------------------------------------------ input domain
PixelSet == { <<0, 0, 0, 255>>, <<2, 0, 0, 255>>, <<0, 4, 0, 128>> }
PalColours == { <<0, 0, 0>>, <<3, 0, 0>>, <<4, 0, 0>> }
Distances == { "rgb", "oklab" }
\* dithering and distance of a call: the diffusion modes feed fractional
\* colours to the metric, which rgbToOklab below does not tabulate
Modes == { <<"none", "rgb">>, <<"none", "oklab">>,
           <<"floyd-steinberg", "rgb">>, <<"atkinson", "rgb">> }

RECURSIVE SeqsUpTo(_, _)
SeqsUpTo(S, n) ==
  IF n = 0 THEN { <<>> }
  ELSE LET shorter == SeqsUpTo(S, n - 1)
       IN shorter \cup { Append(s, e) : s \in { t \in shorter : Len(t) = n - 1 }, e \in S }

RECURSIVE Flatten(_)
Flatten(ss) == IF ss = <<>> THEN <<>> ELSE Head(ss) \o Flatten(Tail(ss))

\* sum of f[j] over the j of S
RECURSIVE SumOver(_, _)
SumOver(S, f) == IF S = {} THEN 0 ELSE LET j == CHOOSE j \in S : TRUE
                                      IN f[j] + SumOver(S \ {j}, f)

\* ImageData: width x height RGBA pixels, row-major
ImageData(data, w, h) == [data |-> data, width |-> w, height |-> h]
Frames == UNION { { ImageData(Flatten(px), w, h) : px \in [1..(w * h) -> PixelSet] } :
                  w \in 1..MaxW, h \in 1..MaxH }
NoImage == ImageData(<<>>, 0, 0)
Palettes == SeqsUpTo(PalColours, MaxPal)

\* --------------------------------------------------------- colour space
\* rgbToOklab on the colours of the input domain: the values of the source's
\* formula (srgbToLinear, the two matrices, cbrt) in units of 1e-4.  At this
\* resolution the Float32 rounding of the palette coordinates is invisible and
\* the ordering of all distances of the domain is the ordering of the doubles.
rgbToOklab(r, g, b) ==
  IF r = Undef \/ g = Undef \/ b = Undef THEN <<NaN, NaN, NaN>>
  ELSE CASE <<r, g, b>> = <<Fix(0), Fix(0), Fix(0)>> -> <<0, 0, 0>>
         [] <<r, g, b>> = <<Fix(2), Fix(0), Fix(0)>> -> <<532, 190, 107>>
         [] <<r, g, b>> = <<Fix(3), Fix(0), Fix(0)>> -> <<609, 218, 122>>
         [] <<r, g, b>> = <<Fix(4), Fix(0), Fix(0)>> -> <<670, 240, 134>>
         [] <<r, g, b>> = <<Fix(0), Fix(4), Fix(0)>> -> <<924, -250, 191>>
         [] <<r, g, b>> = <<Fix(8), Fix(0), Fix(0)>> -> <<844, 302, 169>>

\* paletteToFlat: [{r,g,b}] -> Uint8Array [r,g,b,r,g,b,...]
paletteToFlat(palette) == Flatten(palette)

\* buildPalettePrepared
buildPalettePrepared(pFlat, distance) ==
  LET n == Len(pFlat) \div 3
      pr == [i \in 1..n |-> pFlat[(i - 1) * 3 + 1]]
      pg == [i \in 1..n |-> pFlat[(i - 1) * 3 + 2]]
      pb == [i \in 1..n |-> pFlat[(i - 1) * 3 + 3]]
      lab == [i \in 1..n |-> IF distance = "oklab" THEN rgbToOklab(Fix(pr[i]), Fix(pg[i]), Fix(pb[i]))
                                                   ELSE <<Undef, Undef, Undef>>]
  IN [pr |-> pr, pg |-> pg, pb |-> pb,
      pL |-> [i \in 1..n |-> lab[i][1]],
      pA |-> [i \in 1..n |-> lab[i][2]],
      pB |-> [i \in 1..n |-> lab[i][3]],
      n |-> n]

\* ------------------------------------------------------------------- LUT
RECURSIVE Pow2(_)
Pow2(n) == IF n = 0 THEN 1 ELSE 2 * Pow2(n - 1)

\* x >> s of a channel value: ToInt32 truncates the fraction of x >= 0, and
\* undefined >> s is 0
Shr(x, s) == IF x = Undef \/ x = NaN THEN 0 ELSE (x \div Unit) \div Pow2(s)
Shl(x, s) == x * Pow2(s)

RECURSIVE BitOr(_, _)
BitOr(a, b) ==
  IF a = 0 THEN b
  ELSE IF b = 0 THEN a
  ELSE 2 * BitOr(a \div 2, b \div 2) + (IF a % 2 = 1 \/ b % 2 = 1 THEN 1 ELSE 0)

\* makeLUT(bits): an Int32Array of 1 << (bits*3) cells, all -1.  The array is
\* kept as the map of its cells that are not -1.
makeLUT(bits) == [bits |-> bits, shift |-> 8 - bits, lut |-> <<>>]

LutKey(L, r, g, b) ==
  BitOr(BitOr(Shl(Shr(r, L.shift), L.bits * 2), Shl(Shr(g, L.shift), L.bits)), Shr(b, L.shift))

LutGet(L, k) == IF k \in DOMAIN L.lut THEN L.lut[k] ELSE -1

LutSet(L, k, v) ==
  [L EXCEPT !.lut = [x \in (DOMAIN L.lut) \cup {k} |-> IF x = k THEN v ELSE L.lut[x]]]

NoLut == [bits |-> Undef, shift |-> Undef, lut |-> <<>>]

\* ---------------------------------------------------------- nearest colour
Sq(x) == x * x

\* d of one palette entry (0-based index i) in the scan loop
EntryDist(r, g, b, prep, distance, i) ==
  IF {r, g, b} \cap { Undef, NaN } # {} THEN NaN
  ELSE IF distance = "rgb"
       THEN Sq(r - Fix(prep.pr[i + 1])) + Sq(g - Fix(prep.pg[i + 1]))
              + Sq(b - Fix(prep.pb[i + 1]))
       ELSE LET q == rgbToOklab(r, g, b)
            IN Sq(q[1] - prep.pL[i + 1]) + Sq(q[2] - prep.pA[i + 1]) + Sq(q[3] - prep.pB[i + 1])

\* d < bestDist
LessMutantLeq(d, bestDist) == d # NaN /\ (bestDist = Infinity \/ d <= bestDist)
Less(d, bestDist) == d # NaN /\ (bestDist = Infinity \/ d < bestDist)

\* for(let i=0;i<n;i++){ ...; if(d < bestDist){ bestDist = d; best = i; } }
RECURSIVE ScanLoop(_, _, _, _, _, _, _, _)
ScanLoop(i, best, bestDist, r, g, b, prep, distance) ==
  IF i >= prep.n THEN best
  ELSE LET d == EntryDist(r, g, b, prep, distance, i)
       IN IF Less(d, bestDist)
          THEN ScanLoop(i + 1, i, d, r, g, b, prep, distance)
          ELSE ScanLoop(i + 1, best, bestDist, r, g, b, prep, distance)

\* the uncached part of nearestIdx: let best = 0; let bestDist = Infinity; loop
FullScan(r, g, b, prep, distance) == ScanLoop(0, 0, Infinity, r, g, b, prep, distance)

\* nearestIdx(r,g,b,prep,distance,lut): the index returned, the LUT after the
\* call, and whether the cached index was returned (cached >= 0)
nearestIdxMutantOverwrite(r, g, b, prep, distance, L) ==
  LET best == FullScan(r, g, b, prep, distance)
  IN [idx |-> best, hit |-> LutGet(L, LutKey(L, r, g, b)) >= 0,
      lut |-> LutSet(L, LutKey(L, r, g, b), best)]
nearestIdx(r, g, b, prep, distance, L) ==
  IF L # NoLut /\ LutGet(L, LutKey(L, r, g, b)) >= 0
  THEN [idx |-> LutGet(L, LutKey(L, r, g, b)), hit |-> TRUE, lut |-> L]
  ELSE LET best == FullScan(r, g, b, prep, distance)
       IN [idx |-> best, hit |-> FALSE,
           lut |-> IF L # NoLut THEN LutSet(L, LutKey(L, r, g, b), best) ELSE L]

\* colorDistance (image library)
colorDistance(aR, aG, aB, bR, bG, bB, mode) ==
  IF {aR, aG, aB} \cap { Undef, NaN } # {} THEN NaN
  ELSE IF mode = "rgb"
       THEN Sq(aR - bR) + Sq(aG - bG) + Sq(aB - bB)
       ELSE LET c1 == rgbToOklab(aR, aG, aB)
                c2 == rgbToOklab(bR, bG, bB)
            IN Sq(c1[1] - c2[1]) + Sq(c1[2] - c2[2]) + Sq(c1[3] - c2[3])

\* nearestPaletteColor (image library): bestIdx=0, bestDist=Infinity;
\* for(i...){ d = colorDistance(...); if(d<bestDist){...} } return palette[bestIdx]
RECURSIVE PaletteScan(_, _, _, _, _, _, _, _)
PaletteScan(i, bestIdx, bestDist, r, g, b, palette, distance) ==
  IF i >= Len(palette) THEN bestIdx
  ELSE LET p == palette[i + 1]
           d == colorDistance(r, g, b, Fix(p[1]), Fix(p[2]), Fix(p[3]), distance)
       IN IF Less(d, bestDist)
          THEN PaletteScan(i + 1, i, d, r, g, b, palette, distance)
          ELSE PaletteScan(i + 1, bestIdx, bestDist, r, g, b, palette, distance)

nearestPaletteColor(r, g, b, palette, distance) ==
  LET bestIdx == PaletteScan(0, 0, Infinity, r, g, b, palette, distance)
  IN [idx |-> bestIdx, c |-> At(palette, bestIdx)]

\* ------------------------------------------------------------ worker job
\* QuantizeJob; an absent optional field (yStart, yEnd, cacheBits) is Undef.
\* orderedStrength and ditherAmount are fractions in fixed point; MkJob leaves
\* them absent and WithOpts sets them.
MkJob(w, h, src, pal, mode, distance, yStart, yEnd, cacheBits) ==
  [width |-> w, height |-> h, src |-> src, palette |-> pal, mode |-> mode,
   distance |-> distance, orderedStrength |-> Undef, serpentine |-> TRUE,
   ditherAmount |-> Undef,
   yStart |-> yStart, yEnd |-> yEnd, cacheBits |-> cacheBits]

WithOpts(job, orderedStrength, ditherAmount) ==
  [job EXCEPT !.orderedStrength = orderedStrength, !.ditherAmount = ditherAmount]

JobY0MutantZero(job) == 0
JobY0(job) == Nullish(job.yStart, 0)
JobY1(job) == Nullish(job.yEnd, job.height)

\* new Uint8ClampedArray(n): n zero bytes
Zeros(n) == [i \in 1..n |-> 0]

\* x<0?0:x>255?255:x (both comparisons are false for NaN)
clamp255(x) == IF x = NaN THEN NaN ELSE IF x < 0 THEN 0 ELSE IF x > Fix(255) THEN Fix(255) ELSE x

\* Bayer matrices of the ordered modes
M4 == << <<0, 8, 2, 10>>,
         <<12, 4, 14, 6>>,
         <<3, 11, 1, 9>>,
         <<15, 7, 13, 5>> >>
M8 == << <<0, 32, 8, 40, 2, 34, 10, 42>>,
         <<48, 16, 56, 24, 50, 18, 58, 26>>,
         <<12, 44, 4, 36, 14, 46, 6, 38>>,
         <<60, 28, 52, 20, 62, 30, 54, 22>>,
         <<3, 35, 11, 43, 1, 33, 9, 41>>,
         <<51, 19, 59, 27, 49, 17, 57, 25>>,
         <<15, 47, 7, 39, 13, 45, 5, 37>>,
         <<63, 31, 55, 23, 61, 29, 53, 21>> >>

\* orderedStrength ?? 0.5
HalfStrength == Unit \div 2
OrDefaultMutantFloor(orderedStrength) ==
  IF orderedStrength = Undef THEN HalfStrength ELSE Max2(orderedStrength, Unit \div 32)
OrDefault(orderedStrength) == Nullish(orderedStrength, HalfStrength)

\* ((M[y%size][x%size] / denom) - 0.5) * amp, for amp = 255 * strength
BayerT(mode, x, y, amp) ==
  LET size == IF mode = "ordered4" THEN 4 ELSE 8
      denom == IF size = 4 THEN 16 ELSE 64
      M == IF mode = "ordered4" THEN M4 ELSE M8
  IN ((2 * M[(y % size) + 1][(x % size) + 1] - denom) * amp) \div (2 * denom)

Ordered(mode) == mode \in { "ordered4", "ordered8" }

\* state of the pixel loop of doNoneOrOrdered at its start: position 0 of the
\* strip, fresh LUT, zeroed outStrip, no query made yet
NoQuery == [r |-> Undef, g |-> Undef, b |-> Undef, key |-> Undef, hit |-> FALSE, idx |-> Undef]
LoopStart(job) ==
  [pos |-> 0,
   lut |-> makeLUT(Nullish(job.cacheBits, DefaultBits)),
   out |-> Zeros((JobY1(job) - JobY0(job)) * job.width * 4),
   q |-> NoQuery]

LoopDone(job, st) == st.pos >= (JobY1(job) - JobY0(job)) * job.width

\* one iteration of the x/y loops of doNoneOrOrdered
\* (st.pos counts the iterations: y = y0 + pos div w, x = pos mod w)
LoopBody(job, st) ==
  LET w == job.width
      y == JobY0(job) + st.pos \div w
      x == st.pos % w
      j == ((y - JobY0(job)) * w + x) * 4
      strength == clamp255(255 * OrDefault(job.orderedStrength))
      t == BayerT(job.mode, x, y, strength)
      r == IF Ordered(job.mode) THEN clamp255(Plus(Fix(At(job.src, j)), t))
           ELSE Fix(At(job.src, j))
      g == IF Ordered(job.mode) THEN clamp255(Plus(Fix(At(job.src, j + 1)), t))
           ELSE Fix(At(job.src, j + 1))
      b == IF Ordered(job.mode) THEN clamp255(Plus(Fix(At(job.src, j + 2)), t))
           ELSE Fix(At(job.src, j + 2))
      prep == buildPalettePrepared(job.palette, job.distance)
      res == nearestIdx(r, g, b, prep, job.distance, st.lut)
      o == ((y - JobY0(job)) * w + x) * 4
  IN [pos |-> st.pos + 1,
      lut |-> res.lut,
      out |-> [st.out EXCEPT ![o + 1] = ToByte(At(prep.pr, res.idx)),
                             ![o + 2] = ToByte(At(prep.pg, res.idx)),
                             ![o + 3] = ToByte(At(prep.pb, res.idx)),
                             ![o + 4] = 255],
      q |-> [r |-> r, g |-> g, b |-> b, key |-> LutKey(st.lut, r, g, b),
             hit |-> res.hit, idx |-> res.idx]]

RECURSIVE RunLoop(_, _)
RunLoop(job, st) == IF LoopDone(job, st) THEN st ELSE RunLoop(job, LoopBody(job, st))

\* doNoneOrOrdered(job): the outStrip buffer, or the exception thrown by
\* new Uint8ClampedArray(n) for a negative length
doNoneOrOrdered(job) ==
  IF (JobY1(job) - JobY0(job)) * job.width * 4 < 0
  THEN [threw |-> TRUE, out |-> <<>>]
  ELSE [threw |-> FALSE, out |-> RunLoop(job, LoopStart(job)).out]

\* ------------------------------------------------------ error diffusion
\* [dx, dy, f] with f = num/den
weightsFS == << <<1, 0, 7, 16>>, <<-1, 1, 3, 16>>, <<0, 1, 5, 16>>, <<1, 1, 1, 16>> >>
weightsAtk == << <<1, 0, 1, 8>>, <<2, 0, 1, 8>>, <<-1, 1, 1, 8>>, <<0, 1, 1, 8>>,
                 <<1, 1, 1, 8>>, <<0, 2, 1, 8>> >>

\* one turn of for(const [dx,dy,f] of weights){ nx, ny; if outside continue;
\* buf[n] += er*f; buf[n+1] += eg*f; buf[n+2] += eb*f }, the factor being
\* f * scale in the library (scale = ditherAmount) and f in the worker
TapMutantKeep(buf, wt, x, y, dir, e, w, h, scale) ==
  LET nx == x + wt[1] * dir
      ny == y + wt[2]
      inside == ~(nx < 0 \/ nx >= w \/ ny < 0 \/ ny >= h)
      n == IF inside THEN (ny * w + nx) * 3 ELSE (y * w + x) * 3
      f(c) == (((e[c] * wt[3]) \div wt[4]) * scale) \div Unit
  IN [buf EXCEPT ![n + 1] = @ + f(1), ![n + 2] = @ + f(2), ![n + 3] = @ + f(3)]
Tap(buf, wt, x, y, dir, e, w, h, scale) ==
  LET nx == x + wt[1] * dir
      ny == y + wt[2]
      n == (ny * w + nx) * 3
      f(c) == (((e[c] * wt[3]) \div wt[4]) * scale) \div Unit
  IN IF nx < 0 \/ nx >= w \/ ny < 0 \/ ny >= h
     THEN buf
     ELSE [buf EXCEPT ![n + 1] = @ + f(1), ![n + 2] = @ + f(2), ![n + 3] = @ + f(3)]

RECURSIVE Taps(_, _, _, _, _, _, _, _, _, _)
Taps(buf, weights, k, x, y, dir, e, w, h, scale) ==
  IF k > Len(weights) THEN buf
  ELSE Taps(Tap(buf, weights[k], x, y, dir, e, w, h, scale),
            weights, k + 1, x, y, dir, e, w, h, scale)

\* state of the pixel loop of doDiffusion at its start
DiffStart(job) ==
  [pos |-> 0,
   lut |-> makeLUT(Nullish(job.cacheBits, DefaultBits)),
   out |-> Zeros(job.width * job.height * 4),
   buf |-> Zeros(job.width * job.height * 3),
   q |-> NoQuery]

DiffDone(job, st) == st.pos >= job.width * job.height

\* one iteration of the y/x loops of doDiffusion (floyd-steinberg, atkinson);
\* st.pos counts the iterations: y = pos div w, and x runs from 0 up or from
\* w-1 down according to dir.  The job's src holds the whole frame.
DiffBody(job, st) ==
  LET w == job.width
      h == job.height
      y == st.pos \div w
      dir == IF job.serpentine /\ y % 2 = 1 THEN -1 ELSE 1
      x == IF dir = 1 THEN st.pos % w ELSE w - 1 - (st.pos % w)
      idx == y * w + x
      i == idx * 4
      bIdx == idx * 3
      r == clamp255(Fix(At(job.src, i)) + st.buf[bIdx + 1])
      g == clamp255(Fix(At(job.src, i + 1)) + st.buf[bIdx + 2])
      b == clamp255(Fix(At(job.src, i + 2)) + st.buf[bIdx + 3])
      prep == buildPalettePrepared(job.palette, job.distance)
      res == nearestIdx(r, g, b, prep, job.distance, st.lut)
      pi == res.idx
      e == << r - Fix(ToByte(At(prep.pr, pi))), g - Fix(ToByte(At(prep.pg, pi))),
              b - Fix(ToByte(At(prep.pb, pi))) >>
      weights == IF job.mode = "atkinson" THEN weightsAtk ELSE weightsFS
  IN [pos |-> st.pos + 1,
      lut |-> res.lut,
      out |-> [st.out EXCEPT ![i + 1] = ToByte(At(prep.pr, pi)),
                             ![i + 2] = ToByte(At(prep.pg, pi)),
                             ![i + 3] = ToByte(At(prep.pb, pi)),
                             ![i + 4] = 255],
      buf |-> Taps(st.buf, weights, 1, x, y, dir, e, w, h, Unit),
      q |-> [r |-> r, g |-> g, b |-> b, key |-> LutKey(st.lut, r, g, b),
             hit |-> res.hit, idx |-> res.idx]]

RECURSIVE RunDiff(_, _)
RunDiff(job, st) == IF DiffDone(job, st) THEN st ELSE RunDiff(job, DiffBody(job, st))

\* doDiffusion(job), modes floyd-steinberg / atkinson: the out buffer of the
\* whole frame
doDiffusion(job) == [threw |-> FALSE, out |-> RunDiff(job, DiffStart(job)).out]

\* doOptimisedCustom.  findBestPaletteCandidates returns the (up to 3) entries
\* nearest to the pixel and selectOptimalCandidate returns the idx of one of
\* them, by a score made of luma variances, square roots and the weights
\* 0.299 / 0.587 / 0.114, which have no exact representation here: the index
\* chosen is left open among the palette indices, and the error buffer, which
\* only feeds that choice, is not followed.
CandidatesMutantOffByOne(job) == 0..buildPalettePrepared(job.palette, job.distance).n
Candidates(job) == 0..(buildPalettePrepared(job.palette, job.distance).n - 1)

\* one iteration of the y/x loops of doOptimisedCustom, bestIdx being the
\* result of selectOptimalCandidate
CustomBody(job, st, bestIdx) ==
  LET w == job.width
      y == st.pos \div w
      dir == IF job.serpentine /\ y % 2 = 1 THEN -1 ELSE 1
      x == IF dir = 1 THEN st.pos % w ELSE w - 1 - (st.pos % w)
      i == (y * w + x) * 4
      prep == buildPalettePrepared(job.palette, job.distance)
  IN [st EXCEPT !.pos = @ + 1,
                !.out = [@ EXCEPT ![i + 1] = ToByte(At(prep.pr, bestIdx)),
                                  ![i + 2] = ToByte(At(prep.pg, bestIdx)),
                                  ![i + 3] = ToByte(At(prep.pb, bestIdx)),
                                  ![i + 4] = 255],
                !.q = [NoQuery EXCEPT !.idx = bestIdx]]

\* self.onmessage of the worker: which function runs the job
Strips(mode) == mode \in { "none", "ordered4", "ordered8" }
JobStart(job) == IF Strips(job.mode) THEN LoopStart(job) ELSE DiffStart(job)
JobDone(job, st) == IF Strips(job.mode) THEN LoopDone(job, st) ELSE DiffDone(job, st)
JobBody(job, st) == IF Strips(job.mode) THEN LoopBody(job, st) ELSE DiffBody(job, st)
JobOut(job) == IF Strips(job.mode) THEN doNoneOrOrdered(job) ELSE doDiffusion(job)

\* the worker thread takes a job: everything a job uses (srcArr, out, prep,
\* lut, buf) is a local of doNoneOrOrdered / doDiffusion, built by the call;
\* prev is what the previous job left behind
StartJobMutantKeepLut(prev, job) ==
  [job |-> job,
   st |-> IF prev.st.lut = NoLut THEN JobStart(job)
          ELSE [JobStart(job) EXCEPT !.lut = prev.st.lut],
   ran |-> prev.ran + 1]
StartJob(prev, job) == [job |-> job, st |-> JobStart(job), ran |-> prev.ran + 1]

\* self.onmessage of the worker: the message it posts for a job
WorkerReply(job) ==
  LET res == JobOut(job)
  IN IF res.threw
     THEN [error |-> "RangeError: Invalid typed array length",
           yStart |-> Undef, yEnd |-> Undef, out |-> <<>>]
     ELSE [error |-> "", yStart |-> JobY0(job), yEnd |-> JobY1(job), out |-> res.out]

\* ------------------------------------------------------------------ state
VARIABLES
  wk,       \* a worker job in progress, pixel by pixel: [job, st]
  lib,      \* quantizeToPaletteAdvanced (mode 'none') in progress, pixel by pixel
  pool,     \* the QuantPool object: [workers, idle, queue, current]
  inbox,    \* per worker: tasks posted to it and not yet processed by its thread
  mailbox,  \* per worker: events queued for the pool's onmessage / onerror
  jobs,     \* the jobs submitted so far, in submission order (task id = index)
  promise,  \* per task: [state, value, settles] of the promise submit returned
  posted,   \* the postMessage calls of pump so far: <<worker, task>>
  alive,    \* the Worker threads created and not terminated
  call,     \* one call of quantizeToPaletteAdvancedFast
  fn        \* one call of a function of the image library that runs on its
            \* own (the tap loop of a diffusion step, detectAxis, rebuildBase):
            \* its arguments and its progress

vars == <<wk, lib, pool, inbox, mailbox, jobs, promise, posted, alive, call, fn>>

NoFn == [name |-> "none"]

\* ------------------------------------------------------------- QuantPool
\* constructor default: Math.max(1, Math.min(4, navigator.hardwareConcurrency || 2))
PoolSize(hc) == Max2(1, Min2(PoolMax, IF hc = 0 THEN PoolDefault ELSE hc))

WorkerIds == 1..PoolMax

\* new QuantPool(size): workers w1..wsize, idle = [0..size-1], empty queue and map
NewPool(size) ==
  [workers |-> [i \in 1..size |-> i],
   idle |-> [i \in 1..size |-> i - 1],
   queue |-> <<>>,
   current |-> <<>>]

NoPool == [workers |-> <<>>, idle |-> <<>>, queue |-> <<>>, current |-> <<>>]

\* this.workers.indexOf(w)
IndexOf(workers, w) ==
  IF \E i \in DOMAIN workers : workers[i] = w
  THEN (CHOOSE i \in DOMAIN workers : workers[i] = w /\ \A k \in 1..(i - 1) : workers[k] # w) - 1
  ELSE -1

\* the Map this.current, kept as a function on its keys
MapGet(m, k) == IF k \in DOMAIN m THEN m[k] ELSE Undef
MapSet(m, k, v) == [x \in (DOMAIN m) \cup {k} |-> IF x = k THEN v ELSE m[x]]
MapDeleteMutantKeep(m, k) == m
MapDelete(m, k) == [x \in (DOMAIN m) \ {k} |-> m[x]]

Front(q) == SubSeq(q, 1, Len(q) - 1)
Last(q) == q[Len(q)]

\* pump(): while(idle.length && queue.length){ idle.pop, queue.shift,
\* current.set, postMessage }.  s = [pool, inbox, posted, threw]; threw is set
\* when workers[idx] is undefined and w.postMessage raises a TypeError.
RECURSIVE pump(_)
pumpMutantLifo(s) ==
  IF Len(s.pool.idle) > 0 /\ Len(s.pool.queue) > 0
  THEN LET idx == Last(s.pool.idle)
           w == At(s.pool.workers, idx)
           t == Last(s.pool.queue)
           p1 == [s.pool EXCEPT !.idle = Front(@), !.queue = Front(@),
                                !.current = MapSet(@, w, t)]
       IN IF w = Undef
          THEN [s EXCEPT !.pool = p1, !.threw = TRUE]
          ELSE pump([s EXCEPT !.pool = p1,
                              !.inbox[w] = Append(@, t),
                              !.posted = Append(@, <<w, t>>)])
  ELSE s
pump(s) ==
  IF Len(s.pool.idle) > 0 /\ Len(s.pool.queue) > 0
  THEN LET idx == Last(s.pool.idle)
           w == At(s.pool.workers, idx)
           t == Head(s.pool.queue)
           p1 == [s.pool EXCEPT !.idle = Front(@), !.queue = Tail(@),
                                !.current = MapSet(@, w, t)]
       IN IF w = Undef
          THEN [s EXCEPT !.pool = p1, !.threw = TRUE]
          ELSE pump([s EXCEPT !.pool = p1,
                              !.inbox[w] = Append(@, t),
                              !.posted = Append(@, <<w, t>>)])
  ELSE s

\* the main-thread side of the system as one value, for composing the
\* synchronous steps of a handler
Sys == [pool |-> pool, inbox |-> inbox, mailbox |-> mailbox, jobs |-> jobs,
        promise |-> promise, posted |-> posted, alive |-> alive, call |-> call,
        threw |-> FALSE]

Apply(s) ==
  /\ pool' = s.pool
  /\ inbox' = s.inbox
  /\ mailbox' = s.mailbox
  /\ jobs' = s.jobs
  /\ promise' = s.promise
  /\ posted' = s.posted
  /\ alive' = s.alive
  /\ call' = s.call

\* resolve(v) / reject(e) of a task's promise: only the first call settles it
Settle(pr, t, state, value) ==
  [pr EXCEPT ![t] = IF @.state = "pending"
                    THEN [state |-> state, value |-> value, settles |-> @.settles + 1]
                    ELSE [@ EXCEPT !.settles = @ + 1]]

\* destroy(): terminate every worker, then workers = [], idle = [], queue = [],
\* current.clear().  Worker.terminate() discards the tasks of the worker's
\* event loop and empties the message queue of its outside port.
destroyMutantKeepQueue(s) ==
  [s EXCEPT !.pool = [@ EXCEPT !.workers = <<>>],
            !.alive = @ \ { s.pool.workers[i] : i \in DOMAIN s.pool.workers },
            !.inbox = [w \in WorkerIds |-> <<>>],
            !.mailbox = [w \in WorkerIds |-> <<>>]]
destroy(s) ==
  [s EXCEPT !.pool = NoPool,
            !.alive = @ \ { s.pool.workers[i] : i \in DOMAIN s.pool.workers },
            !.inbox = [w \in WorkerIds |-> <<>>],
            !.mailbox = [w \in WorkerIds |-> <<>>]]

\* submit(job): queue.push({job, resolve, reject}); pump().  An exception of
\* pump inside the promise executor rejects the new promise.
submit(s, job) ==
  LET t == Len(s.jobs) + 1
      s1 == [s EXCEPT !.jobs = Append(@, job),
                      !.promise = Append(@, [state |-> "pending", value |-> Undef, settles |-> 0]),
                      !.pool.queue = Append(@, t)]
      s2 == pump(s1)
  IN IF s2.threw
     THEN [s2 EXCEPT !.promise = Settle(@, t, "rejected", "TypeError"), !.threw = FALSE]
     ELSE s2

\* ------------------------------------------ quantizeToPaletteAdvancedFast
NoCall == [pc |-> "none", img |-> <<>>, w |-> 0, h |-> 0, palette |-> <<>>,
           distance |-> "rgb", dithering |-> "none", out |-> <<>>,
           writes |-> <<>>, strips |-> <<>>, done |-> {}, ret |-> <<>>]

\* typedArray.slice(a, b)
SliceMutantWhole(buf, a, b) == buf
Slice(buf, a, b) == SubSeq(buf, a + 1, Min2(b, Len(buf)))

\* out.set(strip, offset): RangeError when the strip does not fit
SetFits(out, strip, offset) == offset + Len(strip) <= Len(out)
SetAt(out, strip, offset) ==
  [i \in 1..Len(out) |-> IF i > offset /\ i <= offset + Len(strip) THEN strip[i - offset] ELSE out[i]]

\* rows of the frame covered by a write of n bytes at byte offset off
RowsWritten(c, off, n) ==
  { y \in 0..(c.h - 1) : \E i \in (y * c.w * 4)..((y + 1) * c.w * 4 - 1) : i >= off /\ i < off + n }

\* ArrayBuffers are named: << "img", 0 >> is the buffer of img.data, the
\* buffer of src = new Uint8ClampedArray(img.data) is a copy, and
\* src.slice(...) makes the buffer << "slice", s >> of strip s.  A strip
\* record keeps as buf the buffer its job carries as src.
CopyOfMutantAlias(buffer) == buffer
CopyOf(buffer) == << "copy", 0 >>

\* for(let s=0;s<strips;s++){ yStart = s*rowsPer; if(yStart>=h) break; ...submit... }
RECURSIVE StripLoop(_, _, _, _)
StripLoop(s, k, strips, rowsPer) ==
  LET c == s.call
      yStart == k * rowsPer
      yEnd == Min2(c.h, yStart + rowsPer)
      slice == Slice(c.img, yStart * c.w * 4, yEnd * c.w * 4)
      cacheBits == IF c.distance = "oklab" THEN BitsOklab ELSE BitsRgb
      job == MkJob(c.w, c.h, slice, paletteToFlat(c.palette), c.dithering, c.distance,
                   yStart, yEnd, cacheBits)
      s1 == submit(s, job)
      s2 == [s1 EXCEPT !.call.strips =
                 Append(@, [yStart |-> yStart, yEnd |-> yEnd, task |-> Len(s1.jobs),
                            buf |-> << "slice", k >>])]
  IN IF k >= strips \/ yStart >= c.h THEN s ELSE StripLoop(s2, k + 1, strips, rowsPer)

\* canParallel = (dithering==='none' || 'ordered4' || 'ordered8'); the ordered
\* modes are not among the modes of this model
CanParallel(c) == c.dithering = "none"

\* the synchronous part of the call up to its await
FastStart(s, hc) ==
  LET c == s.call
      size == PoolSize(hc)
      s0 == [s EXCEPT !.pool = NewPool(size), !.alive = 1..size,
                      !.call.writes = [y \in 1..c.h |-> 0],
                      !.call.pc = "awaiting"]
      sp == [s0 EXCEPT !.call.out = Zeros(c.w * c.h * 4)]
      strips == Min2(size, c.h)
      rowsPer == CeilDiv(c.h, strips)
      canParallel == CanParallel(c)
      cacheBits == IF c.distance = "oklab" THEN BitsOklab ELSE BitsRgb
      whole == MkJob(c.w, c.h, c.img, paletteToFlat(c.palette), c.dithering, c.distance,
                     Undef, Undef, cacheBits)
      s1 == submit(s0, whole)
  IN IF Len(c.palette) = 0
     THEN [s EXCEPT !.call.pc = "returned", !.call.ret = c.img]
     ELSE IF canParallel
     THEN StripLoop(sp, 0, strips, rowsPer)
     ELSE [s1 EXCEPT !.call.strips = << [yStart |-> 0, yEnd |-> c.h, task |-> Len(s1.jobs),
                                         buf |-> CopyOf(<< "img", 0 >>)] >>]

StripOf(c, t) == CHOOSE st \in { c.strips[i] : i \in DOMAIN c.strips } : st.task = t
TasksOf(c) == { c.strips[i].task : i \in DOMAIN c.strips }

\* jobs.push(job.then(res => out.set(new Uint8ClampedArray(res.out), yStart*w*4)))
ThenCallbackMutantArrival(c, t, res) ==
  LET off == Cardinality(c.done) * (Len(c.out) \div Len(c.strips))
  IN IF SetFits(c.out, res.out, off)
     THEN [threw |-> FALSE,
           call |-> [c EXCEPT !.out = SetAt(@, res.out, off),
                              !.writes = [y \in 1..c.h |->
                                  IF (y - 1) \in RowsWritten(c, off, Len(res.out))
                                  THEN @[y] + 1 ELSE @[y]],
                              !.done = @ \cup {t}]]
     ELSE [threw |-> TRUE, call |-> c]
ThenCallback(c, t, res) ==
  LET off == StripOf(c, t).yStart * c.w * 4
  IN IF SetFits(c.out, res.out, off)
     THEN [threw |-> FALSE,
           call |-> [c EXCEPT !.out = SetAt(@, res.out, off),
                              !.writes = [y \in 1..c.h |->
                                  IF (y - 1) \in RowsWritten(c, off, Len(res.out))
                                  THEN @[y] + 1 ELSE @[y]],
                              !.done = @ \cup {t}]]
     ELSE [threw |-> TRUE, call |-> c]

\* return new ImageData(new Uint8ClampedArray(job.out), w, h) of the
\* single-job branch: the frame is the job's buffer, written as a whole
WholeFrame(c, t, res) ==
  [c EXCEPT !.out = res.out,
            !.writes = [y \in 1..c.h |->
                IF (y - 1) \in RowsWritten(c, 0, Len(res.out)) THEN @[y] + 1 ELSE @[y]],
            !.done = @ \cup {t}]

\* the microtasks that follow the settling of task t.  Strip branch: the
\* then-callback of its strip, Promise.all, and the continuation of the await
\* (pool.destroy(); return new ImageData(out, w, h)) or the rejection of the
\* call.  Single-job branch: the continuation of `await pool.submit(...)`.
AfterSettleMutantFirst(s, t) ==
  LET c == s.call
      pr == s.promise[t]
      cb == IF CanParallel(c) THEN ThenCallback(c, t, pr.value)
            ELSE [threw |-> FALSE, call |-> WholeFrame(c, t, pr.value)]
      c1 == cb.call
  IN IF c.pc = "none" \/ t \notin TasksOf(c) THEN s
     ELSE IF pr.state = "resolved" /\ ~cb.threw
     THEN IF c1.pc = "awaiting"
          THEN destroy([s EXCEPT !.call = [c1 EXCEPT !.pc = "returned", !.ret = c1.out]])
          ELSE [s EXCEPT !.call = c1]
     ELSE IF c.pc = "awaiting" THEN [s EXCEPT !.call.pc = "rejected"] ELSE s
AfterSettle(s, t) ==
  LET c == s.call
      pr == s.promise[t]
      cb == IF CanParallel(c) THEN ThenCallback(c, t, pr.value)
            ELSE [threw |-> FALSE, call |-> WholeFrame(c, t, pr.value)]
      c1 == cb.call
  IN IF c.pc = "none" \/ t \notin TasksOf(c) THEN s
     ELSE IF pr.state = "resolved" /\ ~cb.threw
     THEN IF c1.pc = "awaiting" /\ c1.done = TasksOf(c1)
          THEN destroy([s EXCEPT !.call = [c1 EXCEPT !.pc = "returned", !.ret = c1.out]])
          ELSE [s EXCEPT !.call = c1]
     ELSE IF c.pc = "awaiting" THEN [s EXCEPT !.call.pc = "rejected"] ELSE s

\* ------------------------------------------- quantizeToPaletteAdvanced
\* QuantizeAdvancedOptions; an absent number is Undef, an absent string is ""
MkOpts(distance, dithering, orderedStrength, ditherAmount) ==
  [distance |-> distance, dithering |-> dithering,
   orderedStrength |-> orderedStrength, ditherAmount |-> ditherAmount]

NoLib == [pc |-> "none", img |-> <<>>, w |-> 0, h |-> 0, palette |-> <<>>,
          distance |-> "rgb", dithering |-> "none", orderedStrength |-> Undef,
          ditherAmount |-> Undef, pos |-> 0, out |-> <<>>, buf |-> <<>>, q |-> NoQuery]

\* if(!palette.length) return img; the defaults of the options
\* (distance='oklab', dithering='none', orderedStrength=0.5, ditherAmount=1);
\* out = a copy of img.data (none, ordered) or new ImageData(w,h) (diffusion)
AdvStart(img, palette, opts) ==
  LET dithering == IF opts.dithering = "" THEN "none" ELSE opts.dithering
  IN [pc |-> IF Len(palette) = 0 THEN "returned" ELSE "loop",
      img |-> img.data, w |-> img.width, h |-> img.height, palette |-> palette,
      distance |-> IF opts.distance = "" THEN "oklab" ELSE opts.distance,
      dithering |-> dithering,
      orderedStrength |-> Nullish(opts.orderedStrength, HalfStrength),
      ditherAmount |-> Nullish(opts.ditherAmount, Unit),
      pos |-> 0,
      out |-> IF Len(palette) = 0 \/ Strips(dithering) THEN img.data
              ELSE Zeros(img.width * img.height * 4),
      buf |-> Zeros(img.width * img.height * 3),
      q |-> NoQuery]

\* the call with dithering 'none'
LibStart(img, palette, distance) == AdvStart(img, palette, MkOpts(distance, "none", Undef, Undef))

\* for(let i=0;i<d.length;i+=4){ c = nearestPaletteColor(...); d[i]=c.r; ... }
NoneBody(l) ==
  LET i == l.pos * 4
      r == Fix(At(l.out, i))
      g == Fix(At(l.out, i + 1))
      b == Fix(At(l.out, i + 2))
      res == nearestPaletteColor(r, g, b, l.palette, l.distance)
  IN [l EXCEPT !.pos = @ + 1,
               !.out = [@ EXCEPT ![i + 1] = res.c[1], ![i + 2] = res.c[2], ![i + 3] = res.c[3]],
               !.q = [r |-> r, g |-> g, b |-> b, key |-> Undef, hit |-> FALSE, idx |-> res.idx],
               !.pc = IF (l.pos + 1) * 4 >= Len(l.out) THEN "returned" ELSE "loop"]

\* one iteration of the y/x loops of the ordered branch
OrderedBody(l) ==
  LET y == l.pos \div l.w
      x == l.pos % l.w
      i == (y * l.w + x) * 4
      t == BayerT(l.dithering, x, y, 255 * OrDefault(l.orderedStrength))
      tScaled == (t * l.ditherAmount) \div Unit
      r == clamp255(Plus(Fix(At(l.out, i)), tScaled))
      g == clamp255(Plus(Fix(At(l.out, i + 1)), tScaled))
      b == clamp255(Plus(Fix(At(l.out, i + 2)), tScaled))
      res == nearestPaletteColor(r, g, b, l.palette, l.distance)
  IN [l EXCEPT !.pos = @ + 1,
               !.out = [@ EXCEPT ![i + 1] = res.c[1], ![i + 2] = res.c[2], ![i + 3] = res.c[3]],
               !.q = [r |-> r, g |-> g, b |-> b, key |-> Undef, hit |-> FALSE, idx |-> res.idx],
               !.pc = IF l.pos + 1 >= l.w * l.h THEN "returned" ELSE "loop"]

\* one iteration of the y/x loops of the error-diffusion branch
DiffusionBody(l) ==
  LET y == l.pos \div l.w
      dir == IF y % 2 = 1 THEN -1 ELSE 1
      x == IF dir = 1 THEN l.pos % l.w ELSE l.w - 1 - (l.pos % l.w)
      idx == y * l.w + x
      i == idx * 4
      bIdx == idx * 3
      r == clamp255(Plus(Fix(At(l.img, i)), l.buf[bIdx + 1]))
      g == clamp255(Plus(Fix(At(l.img, i + 1)), l.buf[bIdx + 2]))
      b == clamp255(Plus(Fix(At(l.img, i + 2)), l.buf[bIdx + 3]))
      res == nearestPaletteColor(r, g, b, l.palette, l.distance)
      e == << r - Fix(res.c[1]), g - Fix(res.c[2]), b - Fix(res.c[3]) >>
      weights == IF l.dithering = "atkinson" THEN weightsAtk ELSE weightsFS
  IN [l EXCEPT !.pos = @ + 1,
               !.out = [@ EXCEPT ![i + 1] = res.c[1], ![i + 2] = res.c[2], ![i + 3] = res.c[3],
                                 ![i + 4] = 255],
               !.buf = Taps(@, weights, 1, x, y, dir, e, l.w, l.h, l.ditherAmount),
               !.q = [r |-> r, g |-> g, b |-> b, key |-> Undef, hit |-> FALSE, idx |-> res.idx],
               !.pc = IF l.pos + 1 >= l.w * l.h THEN "returned" ELSE "loop"]

\* one iteration of the loop of the branch the call took
LibBody(l) ==
  IF l.dithering = "none" THEN NoneBody(l)
  ELSE IF Ordered(l.dithering) THEN OrderedBody(l)
  ELSE DiffusionBody(l)

RECURSIVE RunLib(_)
RunLib(l) == IF l.pc = "loop" THEN RunLib(LibBody(l)) ELSE l

\* quantizeToPaletteAdvanced(img, palette, opts): the data of the image returned
quantizeToPaletteAdvanced(img, palette, opts) == RunLib(AdvStart(img, palette, opts)).out

\* ------------------------------------------------------------- actions
NoWk == [job |-> MkJob(0, 0, <<>>, <<>>, "none", "rgb", Undef, Undef, Undef),
         st |-> [pos |-> 0, lut |-> NoLut, out |-> <<>>, q |-> NoQuery],
         ran |-> 0]

PoolIdle ==
  /\ pool = NoPool
  /\ inbox = [w \in WorkerIds |-> <<>>]
  /\ mailbox = [w \in WorkerIds |-> <<>>]
  /\ jobs = <<>>
  /\ promise = <<>>
  /\ posted = <<>>
  /\ alive = {}

\* a worker job over rows [y0, y1) of a frame, as the caller builds it
StripJob(img, palette, distance, y0, y1, bits) ==
  MkJob(img.width, img.height, Slice(img.data, y0 * img.width * 4, y1 * img.width * 4),
        paletteToFlat(palette), "none", distance, y0, y1, bits)
\* a job without yStart / yEnd / cacheBits: the whole frame, default LUT
WholeJob(img, palette, distance) ==
  MkJob(img.width, img.height, img.data, paletteToFlat(palette), "none", distance,
        Undef, Undef, Undef)

InitJob ==
  /\ \E img \in Frames, palette \in Palettes, distance \in Distances :
       /\ \E job \in { WholeJob(img, palette, distance) } \cup
                     { StripJob(img, palette, distance, y0, y1, bits) :
                         y0 \in 0..(img.height - 1), y1 \in 1..img.height,
                         bits \in { BitsOklab, BitsRgb } } :
            /\ JobY0(job) < JobY1(job)
            /\ wk = StartJob(NoWk, job)
       /\ lib = LibStart(img, palette, distance)
  /\ PoolIdle
  /\ call = NoCall
  /\ fn = NoFn

\* one pixel of a worker job
WorkerPixel ==
  /\ wk.job.mode # "optimised-custom"
  /\ ~JobDone(wk.job, wk.st)
  /\ wk' = [wk EXCEPT !.st = JobBody(wk.job, wk.st)]
  /\ UNCHANGED <<lib, pool, inbox, mailbox, jobs, promise, posted, alive, call, fn>>

\* one pixel of quantizeToPaletteAdvanced
LibPixel ==
  /\ lib.pc = "loop"
  /\ lib' = LibBody(lib)
  /\ UNCHANGED <<wk, pool, inbox, mailbox, jobs, promise, posted, alive, call, fn>>

NextJob == WorkerPixel \/ LibPixel

SpecJob == InitJob /\ [][NextJob]_vars

\* ----------------------------------------------- dithering: worker, library
\* frames, palettes and options of the dithering runs.  The colours and the
\* ordered strength (1/32) are small, so that every squared distance of a
\* perturbed colour stays below 2^31; the metric of a mode that feeds
\* fractional colours to it is 'rgb' (see rgbToOklab).
DitherPixels == { <<3, 0, 0, 255>>, <<4, 0, 0, 128>>, <<0, 0, 0, 255>> }
DitherColours == { <<0, 0, 0>>, <<4, 0, 0>>, <<8, 0, 0>> }
DitherFrames == UNION { { ImageData(Flatten(px), w, h) : px \in [1..(w * h) -> DitherPixels] } :
                        w \in 1..MaxW, h \in 1..MaxH }
DitherPalettes == SeqsUpTo(DitherColours, MaxPal)
LowStrength == Unit \div 32
DitherOpts ==
  { MkOpts(d, "none", Undef, Undef) : d \in Distances } \cup
  { MkOpts("rgb", m, os, Undef) : m \in { "ordered4", "ordered8" }, os \in { 0, LowStrength } } \cup
  { MkOpts("rgb", m, Undef, da) : m \in { "floyd-steinberg", "atkinson" }, da \in { Undef, 0 } }
WorkerOpts == DitherOpts \cup { MkOpts("rgb", "optimised-custom", Undef, Undef) }

\* the job quantizeToPaletteAdvancedFast submits for a whole frame: the
\* options after their defaults, cacheBits by the metric
FrameJob(img, palette, opts) ==
  WithOpts(MkJob(img.width, img.height, img.data, paletteToFlat(palette),
                 opts.dithering, opts.distance, Undef, Undef,
                 IF opts.distance = "oklab" THEN BitsOklab ELSE BitsRgb),
           Nullish(opts.orderedStrength, HalfStrength), Nullish(opts.ditherAmount, Unit))

\* jobs a worker thread is given after its first one
TwoRows == ImageData(<<3, 0, 0, 255, 4, 0, 0, 255>>, 1, 2)
FollowJobs ==
  { FrameJob(TwoRows, << <<0, 0, 0>>, <<8, 0, 0>> >>, MkOpts("rgb", "none", Undef, Undef)),
    FrameJob(TwoRows, << <<8, 0, 0>>, <<0, 0, 0>> >>, MkOpts("rgb", "none", Undef, Undef)),
    FrameJob(TwoRows, << <<4, 0, 0>>, <<0, 0, 0>> >>, MkOpts("oklab", "none", Undef, Undef)),
    FrameJob(TwoRows, << <<0, 0, 0>>, <<8, 0, 0>> >>, MkOpts("rgb", "floyd-steinberg", Undef, Undef)) }

\* either a worker thread runs the job of a call, or the library runs the call
InitDither ==
  /\ \E img \in DitherFrames, palette \in DitherPalettes :
       \/ /\ Len(palette) > 0
          /\ \E opts \in WorkerOpts : wk = StartJob(NoWk, FrameJob(img, palette, opts))
          /\ lib = NoLib
       \/ /\ wk = NoWk
          /\ \E opts \in DitherOpts : lib = AdvStart(img, palette, opts)
  /\ PoolIdle
  /\ call = NoCall
  /\ fn = NoFn

\* one pixel of a worker job of mode optimised-custom
CustomPixel ==
  /\ wk.job.mode = "optimised-custom"
  /\ ~JobDone(wk.job, wk.st)
  /\ \E bestIdx \in Candidates(wk.job) :
       wk' = [wk EXCEPT !.st = CustomBody(wk.job, wk.st, bestIdx)]
  /\ UNCHANGED <<lib, pool, inbox, mailbox, jobs, promise, posted, alive, call, fn>>

\* the worker thread, its job done, is given another job
WorkerNext ==
  /\ wk.ran > 0
  /\ wk.ran < MaxRuns
  /\ JobDone(wk.job, wk.st)
  /\ \E job \in FollowJobs : wk' = StartJob(wk, job)
  /\ UNCHANGED <<lib, pool, inbox, mailbox, jobs, promise, posted, alive, call, fn>>

NextDither == WorkerPixel \/ CustomPixel \/ WorkerNext \/ LibPixel

SpecDither == InitDither /\ [][NextDither]_vars

\* ------------------------------------------------ ordered strip jobs
\* a worker thread runs the job quantizeToPaletteAdvancedFast submits for
\* rows [y0, y1) of a frame in mode ordered4 / ordered8: the job of the whole
\* frame with the slice of the rows as src and yStart, yEnd set.  fn keeps the
\* frame and the job of the whole frame.
InitStrip ==
  /\ \E img \in DitherFrames, palette \in DitherPalettes,
        m \in { "ordered4", "ordered8" }, os \in { 0, LowStrength } :
       \E y0 \in 0..(img.height - 1), y1 \in 1..img.height :
         LET full == FrameJob(img, palette, MkOpts("rgb", m, os, Undef))
         IN /\ Len(palette) > 0
            /\ y0 < y1
            /\ wk = StartJob(NoWk, [full EXCEPT
                      !.src = Slice(img.data, y0 * img.width * 4, y1 * img.width * 4),
                      !.yStart = y0, !.yEnd = y1])
            /\ fn = [name |-> "strip", img |-> img, full |-> full]
  /\ lib = NoLib
  /\ PoolIdle
  /\ call = NoCall

NextStrip == WorkerPixel

SpecStrip == InitStrip /\ [][NextStrip]_vars

\* ------------------------------------- the tap loop of one diffusion step
\* no quantization is running
Quiet == wk = NoWk /\ lib = NoLib /\ PoolIdle /\ call = NoCall

\* residuals (er, eg, eb) of the pixel being diffused
Residuals == { << Fix(3), 0, 0 - Fix(1) >>, << 0 - Fix(2), Fix(1), Fix(4) >> }

WeightsOf(mode) == IF mode = "atkinson" THEN weightsAtk ELSE weightsFS

\* the loop over the weights at pixel (x, y) of a w x h frame, the error
\* buffer being empty before it; dir as doDiffusion sets it for row y
InitTaps ==
  /\ \E mode \in { "floyd-steinberg", "atkinson" }, w \in 1..MaxTapW, h \in 1..MaxTapH,
        e \in Residuals, serpentine \in BOOLEAN :
       \E x \in 0..(w - 1), y \in 0..(h - 1) :
         fn = [name |-> "taps", mode |-> mode, w |-> w, h |-> h, x |-> x, y |-> y,
               dir |-> IF serpentine /\ y % 2 = 1 THEN -1 ELSE 1,
               e |-> e, k |-> 1, buf |-> Zeros(w * h * 3)]
  /\ Quiet

\* one turn of the loop over the weights
TapStep ==
  /\ fn.name = "taps"
  /\ fn.k <= Len(WeightsOf(fn.mode))
  /\ fn' = [fn EXCEPT !.k = @ + 1,
                      !.buf = Tap(@, WeightsOf(fn.mode)[fn.k], fn.x, fn.y, fn.dir, fn.e,
                                  fn.w, fn.h, Unit)]
  /\ UNCHANGED <<wk, lib, pool, inbox, mailbox, jobs, promise, posted, alive, call>>

NextTaps == TapStep

SpecTaps == InitTaps /\ [][NextTaps]_vars

\* ---------------------------------------------------------- grid detection
\* 1e-6 is 1 / Micro; ratios and logarithms are kept in units of 1e-6
Micro == 1000000

AbsDiff(a, b) == IF a < b THEN b - a ELSE a - b

RECURSIVE Gcd(_, _)
Gcd(a, b) == IF b = 0 THEN a ELSE Gcd(b, a % b)

\* pixel (x, y) of an image, as <<r, g, b, a>>
Rgba(img, x, y) ==
  LET i == (y * img.width + x) * 4
  IN << At(img.data, i), At(img.data, i + 1), At(img.data, i + 2), At(img.data, i + 3) >>

\* the image that holds each sprite pixel as an sX by sY block, the blocks
\* starting at (dX, dY); the columns before dX and the rows before dY hold
\* the margin pixel
Replicate(sprite, sX, sY, dX, dY, margin) ==
  LET w == dX + sprite.width * sX
      h == dY + sprite.height * sY
      px(p) == LET x == p % w
                   y == p \div w
               IN IF x < dX \/ y < dY THEN margin
                  ELSE Rgba(sprite, (x - dX) \div sX, (y - dY) \div sY)
  IN ImageData(Flatten([p \in 1..(w * h) |-> px(p - 1)]), w, h)

\* a Float64Array of quotients: entry i is num[i] / den
Signal(num, den) == [num |-> num, den |-> den]

computeDiffs(imgData) ==
  LET w == imgData.width
      h == imgData.height
      data == imgData.data
      d3(i, j) == AbsDiff(At(data, i), At(data, j))
                  + AbsDiff(At(data, i + 1), At(data, j + 1))
                  + AbsDiff(At(data, i + 2), At(data, j + 2))
      sumX(x) == SumOver(0..(h - 1), [y \in 0..(h - 1) |->
                                        d3(y * w * 4 + x * 4, y * w * 4 + x * 4 + 4)])
      sumY(y) == SumOver(0..(w - 1), [x \in 0..(w - 1) |->
                                        d3(y * w * 4 + x * 4, (y + 1) * w * 4 + x * 4)])
  IN [diffX |-> Signal([x \in 1..(w - 1) |-> sumX(x - 1)], h),
      diffY |-> Signal([y \in 1..(h - 1) |-> sumY(y - 1)], w)]

\* Math.log(1 + p / q) in units of 1e-6, p / q in lowest terms
LogTable ==
  <<1, 1>> :> 693147 @@ <<1, 2>> :> 405465 @@ <<1, 3>> :> 287682 @@
  <<1, 4>> :> 223144 @@ <<1, 5>> :> 182322 @@ <<1, 6>> :> 154151 @@
  <<1, 7>> :> 133531 @@ <<1, 1000000>> :> 1 @@ <<2, 1>> :> 1098612 @@
  <<2, 3>> :> 510826 @@ <<2, 5>> :> 336472 @@ <<2, 7>> :> 251314 @@
  <<3, 1>> :> 1386294 @@ <<3, 4>> :> 559616 @@ <<3, 7>> :> 356675 @@
  <<4, 1>> :> 1609438 @@ <<5, 1>> :> 1791759 @@ <<5, 2>> :> 1252763 @@
  <<6, 1>> :> 1945910 @@ <<7, 1>> :> 2079442 @@ <<7, 2>> :> 1504077 @@
  <<7, 3>> :> 1203973 @@ <<8, 3>> :> 1299283 @@ <<9, 1>> :> 2302585 @@
  <<9, 2>> :> 1704748 @@ <<10, 1>> :> 2397895 @@ <<13, 1>> :> 2639057 @@
  <<13, 2>> :> 2014903 @@ <<13, 3>> :> 1673976 @@ <<13, 4>> :> 1446919 @@
  <<13, 5>> :> 1280934 @@ <<13, 6>> :> 1152680 @@ <<13, 7>> :> 1049822 @@
  <<14, 1>> :> 2708050 @@ <<14, 3>> :> 1734601 @@ <<14, 5>> :> 1335001 @@
  <<15, 2>> :> 2140066 @@ <<15, 4>> :> 1558145 @@ <<15, 7>> :> 1145132 @@
  <<16, 3>> :> 1845827 @@ <<16, 7>> :> 1189584 @@ <<17, 4>> :> 1658228 @@
  <<20, 3>> :> 2036882 @@ <<21, 2>> :> 2442347 @@ <<26, 3>> :> 2268684 @@
  <<26, 5>> :> 1824549 @@ <<26, 7>> :> 1550597 @@ <<27, 2>> :> 2674149 @@
  <<27, 4>> :> 2047693 @@ <<27, 5>> :> 1856298 @@ <<27, 7>> :> 1580450 @@
  <<28, 3>> :> 2335375 @@ <<28, 5>> :> 1887070 @@ <<29, 3>> :> 2367124 @@
  <<29, 4>> :> 2110213 @@ <<29, 6>> :> 1763589 @@ <<29, 7>> :> 1637609 @@
  <<39, 4>> :> 2374906 @@ <<39, 7>> :> 1882731 @@ <<40, 3>> :> 2662588 @@
  <<40, 7>> :> 1904237 @@ <<41, 3>> :> 2685577 @@ <<41, 4>> :> 2420368 @@
  <<41, 6>> :> 2058388 @@ <<41, 7>> :> 1925291 @@ <<43, 4>> :> 2463853 @@
  <<53, 4>> :> 2656757 @@ <<55, 4>> :> 2691243

\* Math.log(1 + bMean), bMean = num / den
Log1p(bMean) ==
  IF bMean.num = 0 THEN 0
  ELSE LET g == Gcd(bMean.num, bMean.den)
       IN LogTable[<< bMean.num \div g, bMean.den \div g >>]

\* a ratio is [tier, v]: tier 2 is +Infinity; tier 1 is v * 1e6, which is
\* what the division by 1e-6 or 2e-6 gives; tier 0 is v, in units of 1e-6
InfiniteRatio == [tier |-> 2, v |-> 0]

BoundaryMutantFirst(i, s, d) == (((i - d) % s) + s) % s = 0
Boundary(i, s, d) == (((i - d) % s) + s) % s = s - 1

evaluateScaleOffset1D(diff, s, d) ==
  LET n == Len(diff.num)
      bIdx == { i \in 0..(n - 1) : Boundary(i, s, d) }
      nonIdx == (0..(n - 1)) \ bIdx
      bSum == SumOver(bIdx, [i \in bIdx |-> diff.num[i + 1]])
      nonSum == SumOver(nonIdx, [i \in nonIdx |-> diff.num[i + 1]])
      bCount == Cardinality(bIdx)
      nonCount == Cardinality(nonIdx)
      bMean == IF bCount # 0 THEN [num |-> bSum, den |-> bCount * diff.den]
               ELSE [num |-> 1, den |-> Micro]
      ratio == IF nonCount = 0 THEN InfiniteRatio
               ELSE IF nonSum = 0 THEN [tier |-> 0, v |-> 0]
               ELSE IF bCount = 0
                 THEN [tier |-> 1, v |-> (nonSum * Micro) \div (2 * nonCount * diff.den)]
               ELSE IF bSum = 0
                 THEN [tier |-> 1, v |-> (nonSum * Micro) \div (nonCount * diff.den)]
               ELSE [tier |-> 0,
                     v |-> (nonSum * bCount * Micro) \div (nonCount * bSum)
                           - (nonSum * bCount * bCount * diff.den)
                               \div (nonCount * bSum * bSum)]
  IN [ratio |-> ratio, bMean |-> bMean]

\* ratio - 0.05 * Math.log(1 + bound) as <<tier, whole, rest>>: in tier 0
\* whole + rest / 100 units of 1e-6; in tier 1 the logarithm is below the
\* resolution of whole and only orders equal ratios
Score(ratio, bound) ==
  LET t == 5 * Log1p(bound)
  IN IF ratio.tier = 2 THEN << 2, 0, 0 >>
     ELSE IF ratio.tier = 1 THEN << 1, ratio.v, IF t > 0 THEN -1 ELSE 0 >>
     ELSE << 0, ratio.v + ((0 - t) \div 100), (0 - t) % 100 >>

ScoreLess(a, b) ==
  \/ a[1] < b[1]
  \/ a[1] = b[1] /\ a[2] < b[2]
  \/ a[1] = b[1] /\ a[2] = b[2] /\ a[3] < b[3]

\* let best = { s:1, d:0, ratio: +Infinity, non:0, bound:0 }
FirstBest == [s |-> 1, d |-> 0, ratio |-> InfiniteRatio, bound |-> [num |-> 0, den |-> 1]]

\* one turn of the loops of detectAxis: candidate (s, d) against best
CandidateMutantLeq(diff, s, d, best) ==
  LET e == evaluateScaleOffset1D(diff, s, d)
  IN IF ~ScoreLess(Score(best.ratio, best.bound), Score(e.ratio, e.bMean))
     THEN [s |-> s, d |-> d, ratio |-> e.ratio, bound |-> e.bMean]
     ELSE best
Candidate(diff, s, d, best) ==
  LET e == evaluateScaleOffset1D(diff, s, d)
  IN IF ScoreLess(Score(e.ratio, e.bMean), Score(best.ratio, best.bound))
     THEN [s |-> s, d |-> d, ratio |-> e.ratio, bound |-> e.bMean]
     ELSE best

\* sprites of the detection runs: one line of cells, grey levels in the
\* red channel
Greys == { 0, 1, 14 }
GreyPixel(v) == << v, 0, 0, 255 >>
Lines == UNION { [1..k -> Greys] : k \in 2..MaxCells }

\* the line of cells as a row sprite (across = FALSE) or a column sprite
LineSprite(cells, across) ==
  IF across THEN ImageData(Flatten([i \in 1..Len(cells) |-> GreyPixel(cells[i])]), 1, Len(cells))
  ELSE ImageData(Flatten([i \in 1..Len(cells) |-> GreyPixel(cells[i])]), Len(cells), 1)

\* the image of a line replicated with scale S and offset D along it and
\* thickness T across it, the D leading pixels being a part of a cell of
\* grey level lead
LineImage(cells, lead, S, D, T, across) ==
  IF across THEN Replicate(LineSprite(cells, TRUE), T, S, 0, D, GreyPixel(lead))
  ELSE Replicate(LineSprite(cells, FALSE), S, T, D, 0, GreyPixel(lead))

\* const bx = detectAxis(diffs.diffX, maxS) or by = detectAxis(diffs.diffY, maxS)
\* on the differences of a replicated line
InitDetect ==
  /\ \E cells \in Lines, lead \in Greys, S \in 1..MaxScale, T \in 1..MaxThick,
        across \in BOOLEAN, axis \in { "x", "y" }, maxS \in 1..MaxS :
       \E D \in 0..(S - 1) :
         LET img == LineImage(cells, lead, S, D, T, across)
             diffs == computeDiffs(img)
         IN fn = [name |-> "detectAxis", cells |-> cells, lead |-> lead, S |-> S, D |-> D,
                  along |-> (axis = "y") = across,
                  diff |-> IF axis = "x" THEN diffs.diffX ELSE diffs.diffY,
                  maxS |-> maxS, s |-> 2, d |-> 0, best |-> FirstBest]
  /\ Quiet

DetectStep ==
  /\ fn.name = "detectAxis"
  /\ fn.s <= fn.maxS
  /\ fn' = [fn EXCEPT !.best = Candidate(fn.diff, fn.s, fn.d, @),
                      !.s = IF fn.d + 1 < fn.s THEN @ ELSE @ + 1,
                      !.d = IF fn.d + 1 < fn.s THEN @ + 1 ELSE 0]
  /\ UNCHANGED <<wk, lib, pool, inbox, mailbox, jobs, promise, posted, alive, call>>

NextDetect == DetectStep

SpecDetect == InitDetect /\ [][NextDetect]_vars

\* ------------------------------------------------------------- rebuildBase
\* Math.round(sum / count), sum >= 0 and count > 0
RoundDiv(sum, count) == (2 * sum + count) \div (2 * count)

\* if (alpha >= 128)
AlphaThreshold == 128

\* startX = x0 + bx * sX, startY = y0 + by * sY
BlockStartMutantNoOffset(x0, bx, sX) == bx * sX
BlockStart(x0, bx, sX) == x0 + bx * sX

\* the data indices i of the pixels of the sX by sY block at (startX, startY)
BlockPixels(w, sX, sY, startX, startY) ==
  { ((startY + yy) * w + (startX + xx)) * 4 : yy \in 0..(sY - 1), xx \in 0..(sX - 1) }

\* the pixels that enter the sums: all of them in the plain average, those
\* with alpha >= 128 in the alpha-aware one
IncludedMutantAll(data, idx, policy) == idx
Included(data, idx, policy) ==
  IF policy = "alpha" THEN { i \in idx : At(data, i + 3) >= AlphaThreshold } ELSE idx

\* outData[o .. o+3] of one block
BlockMean(data, idx, policy) ==
  LET inc == Included(data, idx, policy)
      count == Cardinality(inc)
      sum(c) == SumOver(inc, [i \in inc |-> At(data, i + c)])
  IN IF count > 0
     THEN << RoundDiv(sum(0), count), RoundDiv(sum(1), count),
             RoundDiv(sum(2), count), RoundDiv(sum(3), count) >>
     ELSE << 0, 0, 0, 0 >>

\* sprites of the rebuild runs: opaque enough, below the threshold, empty
RebuildPixels == { <<2, 0, 0, 128>>, <<5, 0, 0, 127>>, <<0, 0, 0, 0>> }
MarginPixel == <<9, 9, 9, 255>>
Sprites == UNION { { ImageData(Flatten(px), w, h) : px \in [1..(w * h) -> RebuildPixels] } :
                   w \in 1..MaxSpriteW, h \in 1..MaxSpriteH }

\* rebuildBase(imgData, sX, sY, dX, dY) up to its loops, on the image of a
\* replicated sprite; policy "plain" is the plain average, "alpha" the
\* alpha-aware rebuildBase
InitRebuild ==
  /\ \E sX \in 1..MaxBlock, sY \in 1..MaxBlock, policy \in { "plain", "alpha" } :
       \E dX \in 0..(MaxBlock - 1), dY \in 0..(MaxBlock - 1) :
         LET Call(sprite, img) ==
               LET wBlocks == (img.width - dX) \div sX
                   hBlocks == (img.height - dY) \div sY
               IN [name |-> "rebuildBase", policy |-> policy, sprite |-> sprite, img |-> img,
                   sX |-> sX, sY |-> sY, x0 |-> dX, y0 |-> dY,
                   wOut |-> wBlocks, hOut |-> hBlocks, block |-> 0,
                   out |-> Zeros(wBlocks * hBlocks * 4), transparentPixelCount |-> 0]
             AnyPixel == RebuildPixels \cup { <<7, 0, 0, 255>> }
         IN \/ /\ dX < sX /\ dY < sY
               /\ \E sprite \in Sprites :
                    fn = Call(sprite, Replicate(sprite, sX, sY, dX, dY, MarginPixel))
            \* an image that is no replica: sprite is NoImage; at least one
            \* block each way (new ImageData(wBlocks, hBlocks) throws otherwise)
            \/ \E w \in 1..MaxSpriteW, h \in 1..MaxSpriteH :
                 /\ w - dX >= sX /\ h - dY >= sY
                 /\ \E px \in [1..(w * h) -> AnyPixel] :
                      fn = Call(NoImage, ImageData(Flatten(px), w, h))
  /\ Quiet

\* one turn of the loops over by and bx
RebuildStep ==
  /\ fn.name = "rebuildBase"
  /\ fn.block < fn.wOut * fn.hOut
  /\ LET bx == fn.block % fn.wOut
         by == fn.block \div fn.wOut
         idx == BlockPixels(fn.img.width, fn.sX, fn.sY,
                            BlockStart(fn.x0, bx, fn.sX), BlockStart(fn.y0, by, fn.sY))
         px == BlockMean(fn.img.data, idx, fn.policy)
         o == (by * fn.wOut + bx) * 4
     IN fn' = [fn EXCEPT !.block = @ + 1,
                         !.out = [@ EXCEPT ![o + 1] = px[1], ![o + 2] = px[2],
                                           ![o + 3] = px[3], ![o + 4] = px[4]],
                         !.transparentPixelCount =
                            @ + Cardinality(idx \ Included(fn.img.data, idx, fn.policy))]
  /\ UNCHANGED <<wk, lib, pool, inbox, mailbox, jobs, promise, posted, alive, call>>

NextRebuild == RebuildStep

SpecRebuild == InitRebuild /\ [][NextRebuild]_vars

\* ------------------------------------------- processedBase effect (components)
\* The effect of PixelArtCreator and PixelArtRecoverer that computes
\* processedBase.  fn.runs holds one record per run of the effect: kind is
\* "nobuild" (build is null), "sync" (no active palette colour: no await) or
\* "quantize" (awaits quantizeToPaletteAdvancedFast); alive is the run's
\* flag; state is "pending" while the await is outstanding.  The image a run
\* computes is named by the number of the run; 0 is null.

\* if(alive) setProcessedBase(img)
StoreMutantNoCheck(run, n, base) == n
Store(run, n, base) == IF run.alive THEN n ELSE base

InitEffect ==
  /\ fn = [name |-> "effect", runs |-> <<>>, processedBase |-> 0]
  /\ Quiet

\* a dependency changes: the cleanup of the previous run (alive = false),
\* then the new run up to its await or to its end
EffectRun ==
  /\ fn.name = "effect"
  /\ Len(fn.runs) < MaxChanges
  /\ \E kind \in { "nobuild", "sync", "quantize" } :
       LET n == Len(fn.runs) + 1
           cleaned == [i \in 1..Len(fn.runs) |-> [fn.runs[i] EXCEPT !.alive = FALSE]]
           run == [kind |-> kind, alive |-> TRUE,
                   state |-> IF kind = "quantize" THEN "pending" ELSE "done"]
       IN fn' = [fn EXCEPT !.runs = Append(cleaned, run),
                           !.processedBase =
                              IF kind = "nobuild" THEN 0
                              ELSE IF kind = "sync" THEN Store(run, n, @)
                              ELSE @]
  /\ UNCHANGED <<wk, lib, pool, inbox, mailbox, jobs, promise, posted, alive, call>>

\* the promise a run awaits settles: fulfilled, the run goes on to
\* if(alive) setProcessedBase(img); rejected, the async function's promise
\* rejects and nothing is stored
EffectSettle ==
  /\ fn.name = "effect"
  /\ \E i \in DOMAIN fn.runs, outcome \in { "fulfilled", "rejected" } :
       /\ fn.runs[i].state = "pending"
       /\ fn' = [fn EXCEPT !.runs[i].state = outcome,
                           !.processedBase =
                              IF outcome = "fulfilled" THEN Store(fn.runs[i], i, @) ELSE @]
  /\ UNCHANGED <<wk, lib, pool, inbox, mailbox, jobs, promise, posted, alive, call>>

NextEffect == EffectRun \/ EffectSettle

SpecEffect == InitEffect /\ [][NextEffect]_vars

\* ------------------------------------------------- diffusion scan order
\* doOptimisedCustom: baseWeights is the floyd-steinberg list; the long-range
\* list is applied as well when detectGradient(...) > 0.3
longRangeWeights == << <<2, 0, 1, 32>>, <<0, 2, 1, 32>>, <<1, 2, 1, 32>>, <<-1, 2, 1, 64>> >>

\* const nx = x + dx*dir; const ny = y + dy
TapTargetMutantNoMirror(wt, x, y, dir) == << x + wt[1], y + wt[2] >>
TapTarget(wt, x, y, dir) == << x + wt[1] * dir, y + wt[2] >>

\* the y/x loops of doDiffusion, doOptimisedCustom and the diffusion branch
\* of quantizeToPaletteAdvanced over a w x h frame: fn.visits counts, per
\* pixel, the iterations that quantized it, fn.hit holds the pixels whose
\* accumulator cells the last iteration's taps added to
InitScan ==
  /\ \E mode \in { "floyd-steinberg", "atkinson", "optimised-custom" },
        w \in 1..MaxTapW, h \in 1..MaxTapH, serpentine \in BOOLEAN :
       fn = [name |-> "scan", mode |-> mode, w |-> w, h |-> h,
             serpentine |-> serpentine, pos |-> 0, x |-> -1, y |-> -1,
             visits |-> [p \in 0..(w * h - 1) |-> 0], hit |-> {}]
  /\ Quiet

\* one iteration of the loops: y = pos div w, x from 0 up or from w-1 down
ScanStep ==
  /\ fn.name = "scan"
  /\ fn.pos < fn.w * fn.h
  /\ \E gradient \in BOOLEAN :
       LET w == fn.w
           h == fn.h
           y == fn.pos \div w
           dir == IF fn.serpentine /\ y % 2 = 1 THEN -1 ELSE 1
           x == IF dir = 1 THEN fn.pos % w ELSE w - 1 - (fn.pos % w)
           idx == y * w + x
           weights == IF fn.mode = "atkinson" THEN weightsAtk
                      ELSE IF fn.mode = "optimised-custom" /\ gradient
                      THEN weightsFS \o longRangeWeights
                      ELSE weightsFS
           targets == { TapTarget(weights[k], x, y, dir) : k \in DOMAIN weights }
           inside == { t \in targets : ~(t[1] < 0 \/ t[1] >= w \/ t[2] < 0 \/ t[2] >= h) }
       IN fn' = [fn EXCEPT !.pos = @ + 1, !.x = x, !.y = y,
                           !.visits[idx] = @ + 1,
                           !.hit = { t[2] * w + t[1] : t \in inside }]
  /\ UNCHANGED <<wk, lib, pool, inbox, mailbox, jobs, promise, posted, alive, call>>

NextScan == ScanStep

SpecScan == InitScan /\ [][NextScan]_vars

\* ------------------------------------------------- pool and call actions
\* jobs the generic client of the pool submits: a well-formed one-pixel job,
\* a job with a zero-length palette, a job whose src is shorter than
\* rows*width*4, and a job with yEnd < yStart
OnePixel == ImageData(<<3, 0, 0, 255>>, 1, 1)
GoodJob == WholeJob(OnePixel, << <<0, 0, 0>>, <<3, 0, 0>> >>, "rgb")
EmptyPaletteJob == WholeJob(OnePixel, <<>>, "rgb")
ShortSrcJob == MkJob(1, 2, OnePixel.data, <<0, 0, 0, 3, 0, 0>>, "none", "rgb",
                     Undef, Undef, Undef)
BackwardJob == MkJob(1, 1, OnePixel.data, <<0, 0, 0, 3, 0, 0>>, "none", "rgb",
                     1, 0, Undef)
PoolJobs == { GoodJob, EmptyPaletteJob, ShortSrcJob, BackwardJob }

InitPool ==
  /\ \E hc \in 0..MaxHw :
       /\ pool = NewPool(PoolSize(hc))
       /\ alive = 1..PoolSize(hc)
  /\ inbox = [w \in WorkerIds |-> <<>>]
  /\ mailbox = [w \in WorkerIds |-> <<>>]
  /\ jobs = <<>>
  /\ promise = <<>>
  /\ posted = <<>>
  /\ call = NoCall
  /\ wk = NoWk
  /\ lib = NoLib
  /\ fn = NoFn

InitFast ==
  /\ PoolIdle
  /\ \E img \in Frames, palette \in Palettes, m \in Modes :
       call = [NoCall EXCEPT !.pc = "init", !.img = img.data, !.w = img.width,
                             !.h = img.height, !.palette = palette,
                             !.dithering = m[1], !.distance = m[2]]
  /\ wk = NoWk
  /\ lib = NoLib
  /\ fn = NoFn

\* pool.submit(job) by a client of the pool
Submit(job) ==
  /\ call.pc = "none"
  /\ Len(jobs) < MaxSubmits
  /\ Apply(submit(Sys, job))
  /\ UNCHANGED <<wk, lib, fn>>

\* pool.destroy() by a client of the pool
Destroy ==
  /\ call.pc = "none"
  /\ alive # {}
  /\ Apply(destroy(Sys))
  /\ UNCHANGED <<wk, lib, fn>>

\* quantizeToPaletteAdvancedFast(img, palette, opts) up to its await
FastCall ==
  /\ call.pc = "init"
  /\ \E hc \in 0..MaxHw : Apply(FastStart(Sys, hc))
  /\ UNCHANGED <<wk, lib, fn>>

\* what the worker answers to each job of the pool's generic client, worked
\* out once: WorkerRun looks the reply of such a job up here
PoolReplies == [job \in PoolJobs |-> WorkerReply(job)]

\* a worker thread takes the next job message and answers it: with the
\* message its onmessage posts (the result, or {error} when the job threw
\* inside the try), or, when the thread fails outside the try, with an error
\* event on the Worker object
Outcomes == { "reply", "crash" }
WorkerRun(w) ==
  /\ w \in alive
  /\ inbox[w] # <<>>
  /\ \E o \in Outcomes :
       LET t == Head(inbox[w])
           ev == IF o = "reply"
                 THEN [kind |-> "message",
                       data |-> IF jobs[t] \in PoolJobs THEN PoolReplies[jobs[t]]
                                ELSE WorkerReply(jobs[t])]
                 ELSE [kind |-> "error",
                       data |-> [error |-> "ErrorEvent",
                                 yStart |-> Undef, yEnd |-> Undef, out |-> <<>>]]
       IN /\ inbox' = [inbox EXCEPT ![w] = Tail(@)]
          /\ mailbox' = [mailbox EXCEPT ![w] = Append(@, ev)]
  /\ UNCHANGED <<wk, lib, pool, jobs, promise, posted, alive, call, fn>>

\* w.onmessage, followed by the microtasks it leaves
onmessageMutantOldest(s, w) ==
  LET payload == Head(s.mailbox[w]).data
      pending == { t \in DOMAIN s.promise : s.promise[t].state = "pending" }
      task == IF MapGet(s.pool.current, w) = Undef \/ pending = {} THEN Undef
              ELSE CHOOSE t \in pending : \A u \in pending : t <= u
      s1 == [s EXCEPT !.mailbox[w] = Tail(@),
                      !.pool.current = MapDelete(@, w),
                      !.pool.idle = Append(@, IndexOf(s.pool.workers, w))]
      s2 == IF payload.error # ""
            THEN [s1 EXCEPT !.promise = Settle(@, task, "rejected", payload.error)]
            ELSE [s1 EXCEPT !.promise = Settle(@, task, "resolved", payload)]
  IN IF task = Undef THEN s1 ELSE AfterSettle(pump(s2), task)
onmessage(s, w) ==
  LET payload == Head(s.mailbox[w]).data
      task == MapGet(s.pool.current, w)
      s1 == [s EXCEPT !.mailbox[w] = Tail(@),
                      !.pool.current = MapDelete(@, w),
                      !.pool.idle = Append(@, IndexOf(s.pool.workers, w))]
      s2 == IF payload.error # ""
            THEN [s1 EXCEPT !.promise = Settle(@, task, "rejected", payload.error)]
            ELSE [s1 EXCEPT !.promise = Settle(@, task, "resolved", payload)]
  IN IF task = Undef THEN s1 ELSE AfterSettle(pump(s2), task)

\* w.onerror, followed by the microtasks it leaves
onerrorMutantNoRecycle(s, w) ==
  LET e == Head(s.mailbox[w]).data
      task == MapGet(s.pool.current, w)
      s1 == [s EXCEPT !.mailbox[w] = Tail(@),
                      !.pool.current = MapDelete(@, w)]
      s2 == IF task = Undef THEN s1
            ELSE [s1 EXCEPT !.promise = Settle(@, task, "rejected", e.error)]
      s3 == pump(s2)
  IN IF task = Undef THEN s3 ELSE AfterSettle(s3, task)
onerror(s, w) ==
  LET e == Head(s.mailbox[w]).data
      task == MapGet(s.pool.current, w)
      s1 == [s EXCEPT !.mailbox[w] = Tail(@),
                      !.pool.current = MapDelete(@, w),
                      !.pool.idle = Append(@, IndexOf(s.pool.workers, w))]
      s2 == IF task = Undef THEN s1
            ELSE [s1 EXCEPT !.promise = Settle(@, task, "rejected", e.error)]
      s3 == pump(s2)
  IN IF task = Undef THEN s3 ELSE AfterSettle(s3, task)

OnMessage(w) ==
  /\ mailbox[w] # <<>>
  /\ Head(mailbox[w]).kind = "message"
  /\ \E s \in { onmessage(Sys, w) } : Apply(s)
  /\ UNCHANGED <<wk, lib, fn>>

OnError(w) ==
  /\ mailbox[w] # <<>>
  /\ Head(mailbox[w]).kind = "error"
  /\ \E s \in { onerror(Sys, w) } : Apply(s)
  /\ UNCHANGED <<wk, lib, fn>>

NextPool ==
  \/ \E job \in PoolJobs : Submit(job)
  \/ \E w \in WorkerIds : WorkerRun(w)
  \/ \E w \in WorkerIds : OnMessage(w)
  \/ \E w \in WorkerIds : OnError(w)
  \/ Destroy

SpecPool == InitPool /\ [][NextPool]_vars

\* a pool whose workers answer every job and that is never destroyed: a
\* worker thread with a job posted to it eventually takes it and answers
\* it, and the event loop of the main thread eventually runs the handler of
\* an event queued for it (a step of either kind stays enabled until it is
\* taken, so fairness over the workers together is what each worker's own
\* progress gives)
NextLive ==
  \/ \E job \in PoolJobs : Submit(job)
  \/ \E w \in WorkerIds : WorkerRun(w)
  \/ \E w \in WorkerIds : OnMessage(w)
  \/ \E w \in WorkerIds : OnError(w)

SpecLive ==
  /\ InitPool
  /\ [][NextLive]_vars
  /\ WF_vars(\E w \in WorkerIds : WorkerRun(w))
  /\ WF_vars(\E w \in WorkerIds : OnMessage(w))
  /\ WF_vars(\E w \in WorkerIds : OnError(w))

NextFast ==
  \/ FastCall
  \/ \E w \in WorkerIds : WorkerRun(w)
  \/ \E w \in WorkerIds : OnMessage(w)
  \/ \E w \in WorkerIds : OnError(w)

SpecFast == InitFast /\ [][NextFast]_vars

\* ------------------------------------------------------------- C9, C10
\* the palette of the worker job as a list of colours
FlatColour(pFlat, i) == <<pFlat[i * 3 + 1], pFlat[i * 3 + 2], pFlat[i * 3 + 3]>>
FlatLen(pFlat) == Len(pFlat) \div 3

\* squared distance of a query colour to entry i (0-based) of a flat palette
DistTo(q, pFlat, distance, i) ==
  LET p == FlatColour(pFlat, i)
  IN colorDistance(q.r, q.g, q.b, Fix(p[1]), Fix(p[2]), Fix(p[3]), distance)

\* idx is the smallest index among the entries at minimum distance
FirstNearest(q, pFlat, distance) ==
  /\ q.idx \in 0..(FlatLen(pFlat) - 1)
  /\ \A i \in 0..(FlatLen(pFlat) - 1) :
       /\ DistTo(q, pFlat, distance, i) >= DistTo(q, pFlat, distance, q.idx)
       /\ i < q.idx => DistTo(q, pFlat, distance, i) > DistTo(q, pFlat, distance, q.idx)

\* the query colour has two entries at the minimum distance
TiedQuery(q, pFlat, distance) ==
  /\ q.idx # Undef
  /\ \E i \in 0..(FlatLen(pFlat) - 1) :
       i # q.idx /\ DistTo(q, pFlat, distance, i) = DistTo(q, pFlat, distance, q.idx)

\* colour of pixel p (0-based) of an RGBA buffer
PixelAt(buf, p) == <<At(buf, p * 4), At(buf, p * 4 + 1), At(buf, p * 4 + 2)>>

\* C9: within one job, a query whose bucket is unresolved (-1) returns the
\* exact nearest index by full scan and stores it in the bucket; a query whose
\* bucket is resolved returns the stored index; a bucket once set keeps its
\* value; so two pixels of the job in the same bucket get the same colour.
C9Step ==
  wk'.st.pos = wk.st.pos + 1 =>
    LET L == wk.st.lut
        L2 == wk'.st.lut
        q == wk'.st.q
        k == LutKey(L, q.r, q.g, q.b)
    IN /\ \A x \in DOMAIN L.lut : LutGet(L2, x) = L.lut[x]
       /\ LutGet(L, k) = -1 =>
            /\ ~q.hit
            /\ FlatLen(wk.job.palette) > 0 => FirstNearest(q, wk.job.palette, wk.job.distance)
            /\ LutGet(L2, k) = q.idx
       /\ LutGet(L, k) >= 0 => q.hit /\ q.idx = LutGet(L, k) /\ L2 = L

C9SameBucket ==
  \A p1, p2 \in 0..(wk.st.pos - 1) :
    LET c1 == PixelAt(wk.job.src, p1)
        c2 == PixelAt(wk.job.src, p2)
    IN LutKey(wk.st.lut, Fix(c1[1]), Fix(c1[2]), Fix(c1[3]))
         = LutKey(wk.st.lut, Fix(c2[1]), Fix(c2[2]), Fix(c2[3]))
         => PixelAt(wk.st.out, p1) = PixelAt(wk.st.out, p2)

C9Theorem == [][C9Step]_vars /\ []C9SameBucket

\* a cached index was returned for a colour whose own nearest entry is another one
C9Witness ==
  /\ wk.st.q.hit
  /\ wk.st.q.idx # FullScan(wk.st.q.r, wk.st.q.g, wk.st.q.b,
                            buildPalettePrepared(wk.job.palette, wk.job.distance),
                            wk.job.distance)

\* C10: for every colour and non-empty palette, an uncached scan (a LUT miss of
\* nearestIdx, and nearestPaletteColor) returns the smallest palette index
\* among the entries at minimum squared distance.
C10Theorem ==
  /\ (lib.q.idx # Undef /\ Len(lib.palette) > 0)
       => FirstNearest(lib.q, paletteToFlat(lib.palette), lib.distance)
  /\ (wk.st.q.idx # Undef /\ ~wk.st.q.hit /\ FlatLen(wk.job.palette) > 0)
       => FirstNearest(wk.st.q, wk.job.palette, wk.job.distance)

\* both scans have answered a colour that has two palette entries at minimum distance
C10Witness ==
  /\ TiedQuery(lib.q, paletteToFlat(lib.palette), lib.distance)
  /\ ~wk.st.q.hit
  /\ TiedQuery(wk.st.q, wk.job.palette, wk.job.distance)
  /\ \E i \in 1..(FlatLen(wk.job.palette) - 1) :
       FlatColour(wk.job.palette, i) # FlatColour(wk.job.palette, 0)

\* ----------------------------------------------------------- C11 .. C17
\* the colours of a flat palette
ColoursOf(pFlat) == { FlatColour(pFlat, i) : i \in 0..(FlatLen(pFlat) - 1) }

\* alpha of pixel p (0-based) of an RGBA buffer
AlphaAt(buf, p) == At(buf, p * 4 + 3)

\* a worker thread is running, or has run, a job
Working == wk.ran > 0
Finished == Working /\ JobDone(wk.job, wk.st)

\* C11: for every worker job of any mode (none, ordered4, ordered8,
\* floyd-steinberg, atkinson, optimised-custom) with a non-empty palette, the
\* output buffer has rows*width pixels; when the job is done every pixel has
\* the RGB of a palette entry and alpha 255, and before that a pixel is
\* either such a pixel or still blank.
C11Theorem ==
  (Working /\ FlatLen(wk.job.palette) > 0) =>
    LET n == (JobY1(wk.job) - JobY0(wk.job)) * wk.job.width
    IN /\ Len(wk.st.out) = n * 4
       /\ \A p \in 0..(n - 1) :
            \/ /\ PixelAt(wk.st.out, p) \in ColoursOf(wk.job.palette)
               /\ AlphaAt(wk.st.out, p) = 255
            \/ /\ ~JobDone(wk.job, wk.st)
               /\ PixelAt(wk.st.out, p) = <<0, 0, 0>>
               /\ AlphaAt(wk.st.out, p) = 0

\* a job of more than one pixel is done, on a source with an alpha other
\* than 255, and its output holds two different palette colours
C11Witness ==
  /\ Finished
  /\ wk.job.mode \in { "optimised-custom", "atkinson", "ordered8" }
  /\ \E p \in 0..(wk.job.width * wk.job.height - 1) : AlphaAt(wk.job.src, p) # 255
  /\ \E p1, p2 \in 0..(wk.job.width * wk.job.height - 1) :
       PixelAt(wk.st.out, p1) # PixelAt(wk.st.out, p2)

\* every pixel of the RGBA buffer has the colour of a palette entry
AllPaletteColours(buf, colours) ==
  \A p \in 0..((Len(buf) \div 4) - 1) : PixelAt(buf, p) \in colours

\* C12: quantizing with algorithm 'none' an image whose every pixel colour is
\* already a palette entry returns the image unchanged: in the worker job
\* (with its LUT) every pixel keeps its colour, and quantizeToPaletteAdvanced
\* returns the data of the image.
C12Claim ==
  /\ (Finished /\ wk.job.mode = "none"
        /\ AllPaletteColours(wk.job.src, ColoursOf(wk.job.palette)))
       => \A p \in 0..(wk.job.width * wk.job.height - 1) :
            PixelAt(wk.st.out, p) = PixelAt(wk.job.src, p)
  /\ (lib.pc = "returned" /\ lib.dithering = "none" /\ Len(lib.palette) > 0
        /\ AllPaletteColours(lib.img, ColoursOf(paletteToFlat(lib.palette))))
       => lib.out = lib.img

\* the options of the library call in progress, with another dithering
LibOpts(dithering) == MkOpts(lib.distance, dithering, lib.orderedStrength, lib.ditherAmount)
LibImage == ImageData(lib.img, lib.w, lib.h)

\* C13: for every frame and palette, ordered4 and ordered8 with
\* orderedStrength = 0 produce the output of algorithm 'none' on the same
\* job: pixel by pixel in the worker job, and for the image
\* quantizeToPaletteAdvanced returns.
C13Theorem ==
  /\ (Working /\ Ordered(wk.job.mode) /\ wk.job.orderedStrength = 0) =>
       LET none == RunLoop([wk.job EXCEPT !.mode = "none"], LoopStart(wk.job))
       IN /\ \A p \in 0..(wk.st.pos - 1) : Slice(wk.st.out, p * 4, p * 4 + 4)
                                               = Slice(none.out, p * 4, p * 4 + 4)
          /\ wk.st.q.idx # Undef => {wk.st.q.r, wk.st.q.g, wk.st.q.b} \subseteq
                                      { Fix(At(wk.job.src, i)) : i \in 0..(Len(wk.job.src) - 1) }
          /\ Finished => wk.st.out = none.out
  /\ (lib.pc = "returned" /\ Ordered(lib.dithering) /\ lib.orderedStrength = 0) =>
       lib.out = quantizeToPaletteAdvanced(LibImage, lib.palette, LibOpts("none"))

\* an ordered job with strength 0 is done on a frame that the same mode with
\* strength 1/32 quantizes differently
C13Witness ==
  /\ Finished
  /\ Ordered(wk.job.mode)
  /\ wk.job.orderedStrength = 0
  /\ wk.st.out # doNoneOrOrdered([wk.job EXCEPT !.orderedStrength = LowStrength]).out

\* the state of a job after k iterations on a worker that has run nothing else
RECURSIVE FreshRun(_, _, _)
FreshRun(job, st, k) == IF k = 0 THEN st ELSE FreshRun(job, JobBody(job, st), k - 1)

TapsOn(weights, k, nx, ny) ==
  { j \in 1..k : fn.x + weights[j][1] * fn.dir = nx /\ fn.y + weights[j][2] = ny }

\* the taps of the first k weights that fall inside the frame
TapsInside(weights, k) ==
  UNION { TapsOn(weights, k, nx, ny) : nx \in 0..(fn.w - 1), ny \in 0..(fn.h - 1) }

\* what the error buffer holds for channel c, over the whole frame
BufTotal(c) == SumOver(0..(fn.w * fn.h - 1), [p \in 0..(fn.w * fn.h - 1) |-> fn.buf[p * 3 + c]])

\* C15: in a floyd-steinberg or atkinson step, every tap inside the frame
\* adds its fraction of the residual to its own pixel of the accumulator and
\* a tap outside the frame adds nothing anywhere: a pixel holds the shares of
\* the taps that fall on it and nothing else; so for a pixel whose taps are
\* all inside the frame the accumulator receives 16/16 of the residual in
\* floyd-steinberg and 6/8 of it in atkinson, per channel.
C15Theorem ==
  fn.name = "taps" =>
    LET weights == WeightsOf(fn.mode)
        k == fn.k - 1
        Share(c) == [j \in 1..Len(weights) |-> (fn.e[c] * weights[j][3]) \div weights[j][4]]
    IN \A c \in 1..3 :
         /\ \A nx \in 0..(fn.w - 1), ny \in 0..(fn.h - 1) :
              fn.buf[(ny * fn.w + nx) * 3 + c]
                = SumOver(TapsOn(weights, k, nx, ny), Share(c))
         /\ BufTotal(c) = SumOver(TapsInside(weights, k), Share(c))
         /\ (k = Len(weights) /\ TapsInside(weights, k) = 1..k) =>
              BufTotal(c) * 8 = fn.e[c] * (IF fn.mode = "atkinson" THEN 6 ELSE 8)

\* an atkinson step is over whose six taps were all inside the frame
C15Witness ==
  /\ fn.name = "taps"
  /\ fn.mode = "atkinson"
  /\ fn.k = Len(weightsAtk) + 1
  /\ TapsInside(weightsAtk, Len(weightsAtk)) = 1..Len(weightsAtk)

Diffusing(mode) == mode \in { "floyd-steinberg", "atkinson" }

\* the RGB of the pixels of an RGBA buffer
RgbOf(buf) == [p \in 0..((Len(buf) \div 4) - 1) |-> PixelAt(buf, p)]

\* C16: with ditherAmount = 0 no error is diffused: floyd-steinberg and
\* atkinson give every pixel the RGB that algorithm 'none' gives it, in
\* quantizeToPaletteAdvanced and in the worker job that
\* quantizeToPaletteAdvancedFast submits with the same options.
C16Claim ==
  /\ (lib.pc = "returned" /\ Diffusing(lib.dithering) /\ lib.ditherAmount = 0) =>
       RgbOf(lib.out) = RgbOf(quantizeToPaletteAdvanced(LibImage, lib.palette, LibOpts("none")))
  /\ (Finished /\ Diffusing(wk.job.mode) /\ wk.job.ditherAmount = 0) =>
       RgbOf(wk.st.out) = RgbOf(doNoneOrOrdered([wk.job EXCEPT !.mode = "none"]).out)

\* C17: in quantizeToPaletteAdvanced the alpha of every output pixel is the
\* alpha of the same input pixel, for every dithering mode (none, ordered4,
\* ordered8, floyd-steinberg, atkinson).
C17Claim ==
  lib.pc = "returned" =>
    \A p \in 0..(lib.w * lib.h - 1) : AlphaAt(lib.out, p) = AlphaAt(lib.img, p)

\* ----------------------------------------------------------- C18 .. C20
\* detectAxis has returned
Detected == fn.name = "detectAxis" /\ fn.s > fn.maxS

\* the grey levels of the replicated line in image order: the leading part
\* of a cell, if the offset leaves one, then the cells
CellsInOrder == IF fn.D > 0 THEN << fn.lead >> \o fn.cells ELSE fn.cells

\* the differences at the block boundaries
Contrasts == { AbsDiff(CellsInOrder[i], CellsInOrder[i + 1]) : i \in 1..(Len(CellsInOrder) - 1) }

\* the signal is the one along a line whose adjacent cells differ at every
\* block boundary, and the scale is in the search range
Replicated == fn.along /\ 0 \notin Contrasts /\ fn.S <= fn.maxS

\* C18 as stated: for the difference signal of a block-replicated line with
\* scale S and offset D whose adjacent cells differ at every block boundary,
\* and S <= maxS, detectAxis returns s = S and d = D.
C18Claim == (Detected /\ Replicated) => (fn.best.s = fn.S /\ fn.best.d = fn.D)

\* C18 amended: the same when moreover S >= 2, the line has at least two
\* cells and the difference is the same at every block boundary.
C18Theorem ==
  (Detected /\ Replicated /\ fn.S >= 2 /\ Len(fn.cells) >= 2 /\ Cardinality(Contrasts) = 1) =>
    (fn.best.s = fn.S /\ fn.best.d = fn.D)

C18Witness ==
  /\ Detected /\ Replicated /\ Cardinality(Contrasts) = 1
  /\ fn.S = 2 /\ fn.D = 1 /\ fn.maxS > fn.S
  /\ fn.best.s = 2 /\ fn.best.d = 1

\* the signal has one value at every position and every candidate has both
\* boundary and non-boundary positions in it
Constant ==
  /\ \A i, j \in DOMAIN fn.diff.num : fn.diff.num[i] = fn.diff.num[j]
  /\ Len(fn.diff.num) >= fn.maxS
  /\ fn.maxS >= 2

\* within a tenth of 1
NearOne(ratio) == ratio.tier = 0 /\ 10 * AbsDiff(ratio.v, Micro) <= Micro

\* C19: on a signal without periodic structure (a constant signal, the
\* all-zero signal of a uniform image included) detectAxis returns a ratio
\* near 1, and so not a ratio near 0.
C19Claim == (Detected /\ Constant) => NearOne(fn.best.ratio)

\* rebuildBase has returned
Rebuilt == fn.name = "rebuildBase" /\ fn.block = fn.wOut * fn.hOut /\ fn.sprite # NoImage

SameSize == fn.wOut = fn.sprite.width /\ fn.hOut = fn.sprite.height

\* pixel p (0-based) of an RGBA buffer with its alpha
Rgba4(buf, p) == << At(buf, p * 4), At(buf, p * 4 + 1), At(buf, p * 4 + 2), At(buf, p * 4 + 3) >>

\* C20 as stated: rebuildBase at the scale and offset of a block-replicated
\* sprite returns an output of the sprite's dimensions whose every pixel
\* (r, g, b, a) is the sprite's pixel, for the plain average and for the
\* alpha-aware rebuildBase.
C20Claim == Rebuilt => (SameSize /\ fn.out = fn.sprite.data)

\* C20 amended: the output has the sprite's dimensions; with the plain
\* average every pixel is the sprite's pixel; with the alpha-aware
\* rebuildBase a pixel is the sprite's pixel where the sprite's alpha is at
\* least 128 and (0, 0, 0, 0) where it is below.
C20Theorem ==
  Rebuilt =>
    /\ SameSize
    /\ \A p \in 0..(fn.sprite.width * fn.sprite.height - 1) :
         Rgba4(fn.out, p) =
           IF fn.policy = "alpha" /\ At(fn.sprite.data, p * 4 + 3) < AlphaThreshold
           THEN << 0, 0, 0, 0 >> ELSE Rgba4(fn.sprite.data, p)

C20Witness ==
  /\ Rebuilt /\ fn.policy = "alpha" /\ fn.sX = 2 /\ fn.x0 = 1 /\ fn.sY = 2
  /\ fn.sprite.width = 2
  /\ Rgba4(fn.sprite.data, 0) = <<5, 0, 0, 127>> /\ Rgba4(fn.out, 0) = <<0, 0, 0, 0>>
  /\ Rgba4(fn.sprite.data, 1) = <<2, 0, 0, 128>> /\ Rgba4(fn.out, 1) = <<2, 0, 0, 128>>

\* ----------------------------------------------------------- C21 .. C30
\* the alpha-aware rebuildBase has returned
AlphaRebuilt == fn.name = "rebuildBase" /\ fn.block = fn.wOut * fn.hOut /\ fn.policy = "alpha"

\* the positions <<x, y>> of block (bx, by), and those of them with
\* alpha >= 128
BlockAt(bx, by) ==
  { << fn.x0 + bx * fn.sX + xx, fn.y0 + by * fn.sY + yy >> :
      xx \in 0..(fn.sX - 1), yy \in 0..(fn.sY - 1) }
OpaqueAt(bx, by) == { q \in BlockAt(bx, by) : Rgba(fn.img, q[1], q[2])[4] >= 128 }

\* v is the mean of channel c over the positions Q, rounded half up
IsMean(v, c, Q) ==
  LET n == Cardinality(Q)
      total == SumOver(Q, [q \in Q |-> Rgba(fn.img, q[1], q[2])[c]])
  IN 2 * n * v - n <= 2 * total /\ 2 * total < 2 * n * v + n

\* C21: in the alpha-aware rebuildBase only the pixels of a block with
\* alpha >= 128 enter the r, g, b and alpha averages; a block whose pixels
\* all have alpha < 128 outputs (0, 0, 0, 0); transparentPixelCount is the
\* number of pixels with alpha < 128 in the cropped region, and with the
\* number of averaged pixels it makes wCrop * hCrop.
C21Theorem ==
  AlphaRebuilt =>
    LET Blocks == (0..(fn.wOut - 1)) \X (0..(fn.hOut - 1))
        Opaque == UNION { OpaqueAt(b[1], b[2]) : b \in Blocks }
        Crop == UNION { BlockAt(b[1], b[2]) : b \in Blocks }
    IN /\ \A b \in Blocks :
            LET o == Rgba4(fn.out, b[2] * fn.wOut + b[1])
                Q == OpaqueAt(b[1], b[2])
            IN IF Q = {} THEN o = << 0, 0, 0, 0 >>
               ELSE \A c \in 1..4 : IsMean(o[c], c, Q)
       /\ fn.transparentPixelCount = Cardinality(Crop \ Opaque)
       /\ fn.transparentPixelCount + Cardinality(Opaque) = (fn.wOut * fn.sX) * (fn.hOut * fn.sY)

C21Witness ==
  /\ AlphaRebuilt /\ fn.sX = 2 /\ fn.sY = 1 /\ fn.x0 = 0 /\ fn.y0 = 1
  /\ fn.img.data = << 2, 0, 0, 128,  2, 0, 0, 128,
                      7, 0, 0, 255,  5, 0, 0, 127 >>
  /\ fn.img.width = 2
  /\ fn.out = << 7, 0, 0, 255 >>
  /\ fn.transparentPixelCount = 1

\* the strip branch of quantizeToPaletteAdvancedFast has submitted its jobs
\* and awaits them
StripsOut == call.pc = "awaiting" /\ CanParallel(call)

\* the strips are non-empty, contiguous from row 0 to row h, and the job of
\* each carries its range and exactly its rows of the frame
Partition ==
  LET st == call.strips
  IN /\ Len(st) >= 1
     /\ st[1].yStart = 0
     /\ st[Len(st)].yEnd = call.h
     /\ \A i \in 1..Len(st) : st[i].yStart < st[i].yEnd
     /\ \A i \in 1..(Len(st) - 1) : st[i + 1].yStart = st[i].yEnd
     /\ \A i, k \in 1..Len(st) : i # k => st[i].task # st[k].task
     /\ \A i \in 1..Len(st) :
          LET job == jobs[st[i].task]
          IN /\ job.yStart = st[i].yStart /\ job.yEnd = st[i].yEnd
             /\ job.src = SubSeq(call.img, st[i].yStart * call.w * 4 + 1,
                                 st[i].yEnd * call.w * 4)
     /\ Len(jobs) = Len(st)

\* C22 as stated: for a strip-parallel mode the frame is partitioned into N
\* strips, N the pool size, one job per strip; the ranges are non-empty,
\* contiguous, disjoint, cover [0, height), and each job's src holds exactly
\* the rows of its strip.
C22Claim == StripsOut => (Len(call.strips) = Len(pool.workers) /\ Partition)

\* C22 amended: the same with the number of strips being
\* ceil(height / ceil(height / min(N, height))), which is at most
\* min(N, height).
C22Theorem ==
  StripsOut =>
    LET N == Len(pool.workers)
        rowsPer == (call.h + Min2(N, call.h) - 1) \div Min2(N, call.h)
    IN /\ Len(call.strips) = (call.h + rowsPer - 1) \div rowsPer
       /\ Len(call.strips) <= Min2(N, call.h)
       /\ Partition

C22Witness ==
  /\ StripsOut /\ call.h = 2 /\ Len(pool.workers) = 2
  /\ Len(call.strips) = 2 /\ call.strips[2].yStart = 1

\* the number of postMessage calls that transferred the src of task t
Transfers(t) == Cardinality({ n \in DOMAIN posted : posted[n][2] = t })

\* C23: every job's src is a buffer of its own (no two jobs carry the same
\* buffer, none carries the buffer of img.data), it is transferred at most
\* once, exactly once by the time its promise is settled, and to one worker;
\* and the data of the ImageData passed to the call is never changed.
C23Theorem ==
  /\ [](call.pc \in { "awaiting", "returned", "rejected" } =>
         LET st == call.strips
         IN /\ \A i, k \in 1..Len(st) : i # k => st[i].buf # st[k].buf
            /\ \A i \in 1..Len(st) :
                 /\ st[i].buf # << "img", 0 >>
                 /\ Transfers(st[i].task) <= 1
                 /\ promise[st[i].task].state # "pending" => Transfers(st[i].task) = 1)
  /\ [][call.pc # "none" => call'.img = call.img]_vars

C23Witness ==
  /\ call.pc = "returned" /\ Len(call.strips) = 2
  /\ \A i \in 1..2 : Transfers(call.strips[i].task) = 1
  /\ posted[1][1] # posted[2][1]

\* the candidates of detectAxis and the score of one
Cands == { c \in (2..fn.maxS) \X (0..(fn.maxS - 1)) : c[2] < c[1] }
ScoreOf(c) ==
  LET e == evaluateScaleOffset1D(fn.diff, c[1], c[2])
  IN Score(e.ratio, e.bMean)

\* C24: detectAxis returns the candidate (s, d), 2 <= s <= maxS and
\* 0 <= d < s, of least score ratio - 0.05 * log(1 + boundaryMean), among
\* those of equal score the one of smallest s and then smallest d, with the
\* ratio of that candidate; it returns s = 1, d = 0 and an infinite ratio
\* exactly when no candidate has a finite score, which is when maxS < 2 or
\* the signal is empty.
C24Theorem ==
  Detected =>
    LET Finite == { c \in Cands : ScoreOf(c)[1] # 2 }
        b == << fn.best.s, fn.best.d >>
    IN /\ (Finite = {}) <=> (fn.maxS < 2 \/ Len(fn.diff.num) = 0)
       /\ (Finite = {}) <=> (b = << 1, 0 >> /\ fn.best.ratio = InfiniteRatio)
       /\ Finite # {} =>
            /\ b \in Finite
            /\ fn.best.ratio = evaluateScaleOffset1D(fn.diff, b[1], b[2]).ratio
            /\ \A c \in Cands :
                 /\ ~ScoreLess(ScoreOf(c), ScoreOf(b))
                 /\ ScoreOf(c) = ScoreOf(b) =>
                      (b[1] < c[1] \/ (b[1] = c[1] /\ b[2] <= c[2]))

\* two candidates of least score, the first of them returned
C24Witness ==
  /\ Detected /\ fn.maxS >= 3
  /\ fn.best.s = 2 /\ fn.best.d = 1
  /\ ScoreOf(<< 3, 1 >>) = ScoreOf(<< 2, 1 >>)
  /\ \E i \in DOMAIN fn.diff.num : fn.diff.num[i] > 0

\* the runs of the effect and the latest of them
LatestRun == Len(fn.runs)
Settled == \A i \in DOMAIN fn.runs : fn.runs[i].state # "pending"

\* C25: a request superseded by a change of the parameters never stores its
\* result in processedBase (whatever is stored is the result of the run
\* that is the latest at that moment), and once every request has
\* completed, in whatever order, processedBase holds the result computed
\* for the latest parameters whenever that run produced one.
C25Theorem ==
  /\ [][fn.name = "effect" /\ fn'.processedBase # fn.processedBase =>
          fn'.processedBase \in { 0, Len(fn'.runs) }]_vars
  /\ [](fn.name = "effect" /\ LatestRun > 0 /\ Settled =>
          IF fn.runs[LatestRun].kind = "nobuild" THEN fn.processedBase = 0
          ELSE IF fn.runs[LatestRun].state = "rejected" THEN TRUE
          ELSE fn.processedBase = LatestRun)

\* the latest request completed first, the superseded one after it
C25Witness ==
  /\ fn.name = "effect" /\ LatestRun = 2 /\ Settled
  /\ fn.runs[1].kind = "quantize" /\ fn.runs[1].state = "fulfilled"
  /\ fn.runs[2].kind = "quantize" /\ fn.runs[2].state = "fulfilled"
  /\ fn.processedBase = 2

\* C27: in floyd-steinberg, atkinson and optimised-custom, with and without
\* serpentine, no pixel is quantized twice and at the end of the scan every
\* pixel has been quantized once; the taps of an iteration add error only to
\* accumulator cells of pixels not quantized yet.
C27Theorem ==
  fn.name = "scan" =>
    /\ \A p \in DOMAIN fn.visits : fn.visits[p] <= 1
    /\ Cardinality({ p \in DOMAIN fn.visits : fn.visits[p] = 1 }) = fn.pos
    /\ fn.pos = fn.w * fn.h => \A p \in DOMAIN fn.visits : fn.visits[p] = 1
    /\ \A p \in fn.hit : fn.visits[p] = 0

\* a right-to-left row of a serpentine optimised-custom scan, the long-range
\* taps included: the pixel just quantized, (2, 1), has the quantized pixel
\* (3, 1) on its right and its taps reached (1, 1) and (0, 1) on its left and
\* the three pixels below
C27Witness ==
  /\ fn.name = "scan" /\ fn.mode = "optimised-custom" /\ fn.serpentine
  /\ fn.w = 4 /\ fn.h = 3 /\ fn.x = 2 /\ fn.y = 1
  /\ fn.visits[7] = 1
  /\ fn.hit = { 4, 5, 9, 10, 11 }

\* task t has been handed to a worker
Dispatched(t) == \E i \in DOMAIN posted : posted[i][2] = t

\* C28: in a pool that is not destroyed and whose workers answer every job
\* with a message or an error event, every job submitted is eventually
\* dispatched and its promise is eventually resolved or rejected, however
\* many jobs are queued before it.
C28Theorem ==
  \A t \in 1..MaxSubmits :
    (t \in DOMAIN jobs) ~>
      (Dispatched(t) /\ t \in DOMAIN promise /\ promise[t].state # "pending")

\* the last of the jobs submitted to a pool of one worker waited behind the
\* others, one of which failed, and is settled
C28Witness ==
  /\ Len(pool.workers) = 1
  /\ Len(jobs) = MaxSubmits
  /\ \E t \in DOMAIN promise : promise[t].state = "rejected"
  /\ Dispatched(Len(jobs))
  /\ promise[Len(jobs)].state = "resolved"

\* C30: in an ordered4 / ordered8 strip job, the perturbation of the pixel at
\* column x of frame row y is taken from the Bayer matrix at (y mod size,
\* x mod size), y being the row of the frame also when yStart > 0, while the
\* source slice and the output strip are indexed by the row y - yStart; so
\* the colour handed to the nearest-colour lookup is the one the job of the
\* whole frame hands to it for that pixel.
C30Theorem ==
  (fn.name = "strip" /\ wk.st.pos > 0) =>
    LET job == wk.job
        w == job.width
        p == wk.st.pos - 1
        y == job.yStart + p \div w
        x == p % w
        size == IF job.mode = "ordered4" THEN 4 ELSE 8
        M == IF job.mode = "ordered4" THEN M4 ELSE M8
        amp == clamp255(255 * OrDefault(job.orderedStrength))
        t == ((2 * M[(y % size) + 1][(x % size) + 1] - size * size) * amp) \div (2 * size * size)
        i == (y * w + x) * 4
        o == ((y - job.yStart) * w + x) * 4
        whole == LoopBody(fn.full, [LoopStart(fn.full) EXCEPT !.pos = y * w + x]).q
        prep == buildPalettePrepared(job.palette, job.distance)
    IN /\ wk.st.q.r = clamp255(Plus(Fix(At(fn.img.data, i)), t))
       /\ wk.st.q.g = clamp255(Plus(Fix(At(fn.img.data, i + 1)), t))
       /\ wk.st.q.b = clamp255(Plus(Fix(At(fn.img.data, i + 2)), t))
       /\ <<wk.st.q.r, wk.st.q.g, wk.st.q.b>> = <<whole.r, whole.g, whole.b>>
       /\ At(job.src, o) = At(fn.img.data, i)
       /\ wk.st.out[o + 1] = ToByte(At(prep.pr, wk.st.q.idx))
       /\ wk.st.out[o + 4] = 255

\* the strip of row 1 alone: its pixel was perturbed by row 1 of the matrix,
\* which moves it to another colour than row 0 would
C30Witness ==
  /\ fn.name = "strip" /\ wk.st.pos = 1
  /\ wk.job.mode = "ordered4" /\ wk.job.yStart = 1
  /\ wk.job.orderedStrength = LowStrength
  /\ wk.st.q.r > Fix(At(wk.job.src, 0))
  /\ clamp255(Plus(Fix(At(wk.job.src, 0)), BayerT("ordered4", 0, 0, clamp255(255 * LowStrength))))
       < Fix(At(wk.job.src, 0))

\* ------------------------------------------------------------ C3 .. C6
Range(q) == { q[i] : i \in DOMAIN q }

\* the number of times the index of worker w is in the idle list
IdleCount(w) ==
  Cardinality({ i \in DOMAIN pool.idle : pool.idle[i] = IndexOf(pool.workers, w) })

\* the jobs posted to worker w whose event the pool has not handled yet
Outstanding(w) == Len(inbox[w]) + Len(mailbox[w])

\* C26: each worker answering every job with one message or error event,
\* every worker of the pool is either in idle exactly once or holds exactly
\* one current task, never both; a worker that holds a task has exactly one
\* job outstanding and an idle worker none, so no job is dispatched to a
\* worker that still holds a task.
C26Inv ==
  \A w \in Range(pool.workers) :
    /\ IF w \in DOMAIN pool.current
       THEN IdleCount(w) = 0 /\ Outstanding(w) = 1
       ELSE IdleCount(w) = 1 /\ Outstanding(w) = 0
    /\ w \in DOMAIN pool.current => pool.current[w] \in DOMAIN jobs

C26Step ==
  \A i \in DOMAIN posted' :
    i > Len(posted) =>
      /\ \A j \in DOMAIN posted' : (j > Len(posted) /\ j # i) => posted'[j][1] # posted'[i][1]
      /\ posted'[i][1] \in DOMAIN pool.current =>
           (mailbox[posted'[i][1]] # <<>> /\ mailbox'[posted'[i][1]] = <<>>)

C26Theorem == []C26Inv /\ [][C26Step]_vars

\* one worker of a pool of two has been through a job and is idle again,
\* the other holds its second task
C26Witness ==
  /\ Len(pool.workers) = 2
  /\ \E w, v \in Range(pool.workers) :
       /\ w # v
       /\ w \in DOMAIN pool.current /\ v \notin DOMAIN pool.current
       /\ \E i, j \in DOMAIN posted : i < j /\ posted[i][1] = w /\ posted[j][1] = w
       /\ \E i \in DOMAIN posted : posted[i][1] = v

\* destroy() has been called: a pool is built with at least one worker
Destroyed == pool.workers = <<>>

\* C29: destroy() leaves workers, idle, queue and current empty; from then
\* on no job is dispatched, be it one that was queued or one submitted
\* afterwards (which stays in the queue), and the promise of no job is
\* settled: the jobs that were queued or in flight stay pending for ever.
C29Step ==
  /\ (~Destroyed /\ Destroyed') =>
       /\ pool' = NoPool
       /\ alive' = {}
       /\ promise' = promise
       /\ posted' = posted
  /\ Destroyed =>
       /\ Destroyed'
       /\ posted' = posted
       /\ pool'.idle = <<>> /\ pool'.current = <<>>
       /\ \A t \in DOMAIN promise : promise'[t] = promise[t]
       /\ \A t \in DOMAIN promise' : t \notin DOMAIN promise =>
            (promise'[t].state = "pending" /\ t \in Range(pool'.queue))

C29Theorem == [][C29Step]_vars

\* a pool of one worker destroyed with one job in flight and one queued,
\* and a job submitted afterwards: none is settled and only the first was
\* ever dispatched; the last waits in the queue
C29Witness ==
  /\ Destroyed
  /\ Len(jobs) = 3
  /\ posted = << <<1, 1>> >>
  /\ pool.queue = <<3>>
  /\ \A t \in DOMAIN promise : promise[t].state = "pending"

\* C3: jobs are dispatched in submission order (task ids count submissions):
\* the tasks handed to workers so far are in increasing order, every queued
\* task was submitted after every dispatched one, and the queue is in
\* submission order; a job submitted while no worker is idle is queued and
\* not dispatched by that submit.
C3Fifo ==
  /\ \A i, j \in DOMAIN posted : i < j => posted[i][2] < posted[j][2]
  /\ \A i \in DOMAIN pool.queue, j \in DOMAIN posted : posted[j][2] < pool.queue[i]
  /\ \A i, j \in DOMAIN pool.queue : i < j => pool.queue[i] < pool.queue[j]

C3Waits ==
  (Len(jobs') = Len(jobs) + 1 /\ pool.idle = <<>>)
    => (Len(jobs') \in Range(pool'.queue) /\ posted' = posted)

C3Theorem == []C3Fifo /\ [][C3Waits]_vars

\* two jobs wait in the queue behind a busy worker and the first of them has
\* been dispatched to a worker that ran an earlier job
C3Witness ==
  /\ Len(pool.queue) > 0
  /\ \E i, j \in DOMAIN posted : i < j /\ posted[i][1] = posted[j][1]

\* the event at the head of a worker's mailbox reports a failure
Failure(ev) == ev.kind = "error" \/ ev.data.error # ""

\* the step handles the event at the head of w's mailbox
Handles(w) == mailbox[w] # <<>> /\ mailbox'[w] = Tail(mailbox[w]) /\ alive' = alive

\* C4: when a worker reports a failure for its job (error message or error
\* event), the job's promise is rejected and the worker is recycled: with an
\* empty queue it is idle again, otherwise the job at the head of the queue
\* is dispatched in the same step.
C4Step ==
  \A w \in WorkerIds :
    (Handles(w) /\ Failure(Head(mailbox[w])) /\ MapGet(pool.current, w) # Undef) =>
      LET t == pool.current[w]
      IN /\ promise'[t].state = "rejected"
         /\ IF pool.queue = <<>>
            THEN /\ IndexOf(pool.workers, w) \in Range(pool'.idle)
                 /\ w \notin DOMAIN pool'.current
                 /\ posted' = posted
            ELSE /\ posted' = Append(posted, <<w, Head(pool.queue)>>)
                 /\ pool'.queue = Tail(pool.queue)
                 /\ MapGet(pool'.current, w) = Head(pool.queue)
                 /\ inbox'[w] = Append(inbox[w], Head(pool.queue))

C4Theorem == [][C4Step]_vars

\* a job failed on a worker, and a job that was submitted later ran on the
\* same worker and resolved
C4Witness ==
  \E i, j \in DOMAIN posted :
    /\ i < j
    /\ posted[i][1] = posted[j][1]
    /\ promise[posted[i][2]].state = "rejected"
    /\ promise[posted[j][2]].state = "resolved"

\* C5: an event of one worker settles the promise of the job dispatched to
\* that worker and of no other job; a promise is settled at most once; a job
\* that resolves resolves with the result of its own job, whatever happened
\* to the other jobs.
C5Step ==
  \A w \in WorkerIds :
    Handles(w) =>
      LET t == MapGet(pool.current, w)
          ev == Head(mailbox[w])
      IN /\ \A u \in DOMAIN promise : u # t => promise'[u] = promise[u]
         /\ t # Undef =>
              /\ promise[t].state = "pending"
              /\ promise'[t].state = IF Failure(ev) THEN "rejected" ELSE "resolved"
              /\ ~Failure(ev) => promise'[t].value = ev.data

C5Inv ==
  \A t \in DOMAIN promise :
    /\ promise[t].settles <= 1
    /\ promise[t].state = "pending" <=> promise[t].settles = 0
    /\ promise[t].state = "resolved" =>
         /\ promise[t].value.yStart = JobY0(jobs[t])
         /\ promise[t].value.yEnd = JobY1(jobs[t])
         /\ promise[t].value.out = WorkerReply(jobs[t]).out

C5Theorem == []C5Inv /\ [][C5Step]_vars

\* jobs 1 and 2 were in flight together on two workers; job 2 failed and job 1
\* resolved afterwards, the jobs being different
C5Witness ==
  /\ Len(posted) >= 2
  /\ posted[1][1] # posted[2][1]
  /\ jobs[1] # jobs[2]
  /\ promise[2].state = "rejected"
  /\ promise[1].state = "resolved"

\* zero-length palette, or src length different from rows*width*4
Malformed(job) ==
  \/ FlatLen(job.palette) = 0
  \/ Len(job.src) # (JobY1(job) - JobY0(job)) * job.width * 4

\* C6: a quantize job with malformed parameters fails with an error instead
\* of producing an output buffer: its promise never resolves.
C6Claim ==
  \A t \in DOMAIN promise : Malformed(jobs[t]) => promise[t].state # "resolved"

\* -------------------------------------------------------- C1, C2, C7, C8
\* the call went through the worker path (non-empty palette)
Pooled == Len(call.palette) > 0

\* the frame quantized as one job covering [0, height), with the cacheBits
\* the call gives its jobs
SingleJobOut ==
  doNoneOrOrdered(StripJob(ImageData(call.img, call.w, call.h), call.palette,
                           call.distance, 0, call.h,
                           IF call.distance = "oklab" THEN BitsOklab ELSE BitsRgb)).out

\* C1: for algorithm 'none', the frame quantized as N strip jobs, each result
\* placed at its yStart, is byte-identical to the frame quantized as one job
\* covering [0, height).
C1Claim == (call.pc = "returned" /\ Pooled /\ CanParallel(call)) => call.ret = SingleJobOut

\* the result of each strip job of the call, placed at the row range of its
\* job, in submission order
RECURSIVE PlaceStrips(_, _)
PlaceStrips(buf, k) ==
  IF k > Len(call.strips) THEN buf
  ELSE LET job == jobs[call.strips[k].task]
       IN PlaceStrips(SetAt(buf, WorkerReply(job).out, job.yStart * call.w * 4), k + 1)

\* C2: the assembled frame does not depend on the order in which the strip
\* jobs complete: at every moment the rows of each completed job hold that
\* job's result, the other rows are untouched, and the returned frame is the
\* placement of every job's result at its own row range.
C2Theorem ==
  (Pooled /\ CanParallel(call)) =>
    /\ \A k \in DOMAIN call.strips :
         LET st == call.strips[k]
             rows == Slice(call.out, st.yStart * call.w * 4, st.yEnd * call.w * 4)
         IN rows = IF st.task \in call.done THEN promise[st.task].value.out
                   ELSE Zeros((st.yEnd - st.yStart) * call.w * 4)
    /\ call.pc = "returned" => call.ret = PlaceStrips(Zeros(call.w * call.h * 4), 1)

\* the second strip completed and was placed before the first one, the two
\* results being different
C2Witness ==
  /\ CanParallel(call)
  /\ Len(call.strips) = 2
  /\ call.done = { call.strips[2].task }
  /\ promise[call.strips[2].task].value.out
       # doNoneOrOrdered(jobs[call.strips[1].task]).out

\* C7: the call returns an image only after every job it submitted has
\* resolved and every row of the output has been written exactly once, by
\* one job's result; once a job is rejected the call is rejected and never
\* returns an image.
C7Theorem ==
  Pooled =>
    /\ call.pc = "returned" =>
         /\ \A t \in TasksOf(call) : promise[t].state = "resolved"
         /\ \A y \in 1..call.h : call.writes[y] = 1
         /\ call.ret = call.out
         /\ Len(call.ret) = call.w * call.h * 4
    /\ (\E t \in TasksOf(call) : promise[t].state = "rejected") => call.pc = "rejected"

\* a two-strip call has returned
C7Witness == call.pc = "returned" /\ Len(call.strips) = 2

\* nothing is in flight any more
Quiescent == \A w \in WorkerIds : inbox[w] = <<>> /\ mailbox[w] = <<>>

\* C8: the pool a call created is destroyed (all its workers terminated, idle
\* list, queue and current map emptied) once the call is over and its jobs
\* have been answered, whether the call returned or was rejected.
C8Claim ==
  (Pooled /\ call.pc \in { "returned", "rejected" } /\ Quiescent)
    => (alive = {} /\ pool = NoPool)

====
